---- MODULE Spec2Model ----
(***************************************************************************)
(* A model of the asset processor's publish workflow: ensureAssets of      *)
(* lib/assetProcessor.js on top of the storage client of lib/s3.js.        *)
(*                                                                         *)
(* One AssetProcessor instance works on a fixed filesystem and a remote    *)
(* bucket.  Every callback of the program (a finished directory listing,   *)
(* a finished hash, a transport response, a timer, a task that async.auto  *)
(* starts on a later tick) is one action.  The calls a callback makes      *)
(* synchronously are part of that action.                                  *)
(***************************************************************************)
EXTENDS Integers, Sequences, FiniteSets, TLC

(***************************************************************************)
(* Bounds of the model and constants of the program.                       *)
(***************************************************************************)
\* the largest number of files a class's selection holds
MaxFiles == 2

\* lib/s3.js: const maxTries = 3
maxTries == 3

Classes == {"js", "css", "image", "extra"}
Bundled == {"js", "css"}
Relative == {"image", "extra"}

\* the dependency chain of ensureAssets: ensureJs, ensureCss, ensureImages, ensureExtras
ClassOrder == <<"js", "css", "image", "extra">>

Rank(c) == CHOOSE i \in 1..Len(ClassOrder) : ClassOrder[i] = c

\* the two puts that can be in flight at once: the bundle (or file, or marker) and the source map
Slots == {"main", "map"}

(***************************************************************************)
(* State.                                                                  *)
(***************************************************************************)
VARIABLES
    forceCdnUpdate, \* the force flag of the instance
    fsFiles,        \* the filesystem: the selection of each class
    storage,        \* the keys that exist in the bucket
    before,         \* the keys that existed when this call of ensureAssets started
    call,           \* ensureAssets: "idle", "running", "returned" or "crashed"
    callErr,        \* the error ensureAssets called back with
    prevOk,         \* the call before this one called back without an error
    prevUrl,        \* the url of each class in the result of the call before this one
    pc,             \* where the pipeline of each class stands
    path,           \* results.getJsPath, getCssPath, hashAndGeneratePath
    exists,         \* results.checkJs, checkCss, checkFiles: "unknown", "yes", "no"
    url,            \* results.updateJsIfNeeded, updateCssIfNeeded, updateIfNeeded
    result,         \* results.ensureJs, ensureCss, ensureImages, ensureExtras
    up,             \* the tasks of uploadJavaScriptToCdn and uploadCssToCdn
    idx,            \* the file _uploadRelativeToRoot is uploading
    wrapped,        \* _wrapUploadEmitter has attached its listeners to the child emitter
    put,            \* the put of each slot
    log,            \* the events a listener on the AssetProcessor has seen in this call
    issued,         \* the keys a transport put was made for in this call
    cb,             \* the put callback made by the step that led here
    bytes,          \* the filesystem: the bytes of each file
    hashed,         \* the file lists _hashFiles was called with
    digest,         \* what each call of _hashFiles called back with
    config,         \* the configuration of the class whose files are selected
    calls,          \* the calls of _getFiles made so far
    spc,            \* _getFiles: "idle", "listing" or "done"
    pending,        \* the directories whose listing has not called back
    gathered,       \* the files array of _getRelevantFiles
    selection,      \* results.getRelevantFiles: the files selected, relative to the root
    earlier,        \* gathered and selection of the call before this one
    normalizedFullPath, \* _getFiles: the paths are asked for as full paths
    normalized,     \* results.normalizeFullPathIfNeeded: what _getFiles calls back with
    sheets,         \* the CSS files of the bundle: the text CleanCss returns for each
    cst,            \* processCss: "idle", "scanning", "bundled" or "threw"
    fileAt,         \* the file async.eachSeries is at
    currCss,        \* the text of that file, as _rebaseUrls has it
    lastIndex,      \* urlRegex.lastIndex
    bundle,         \* the css of the task cleanCss: the bundle so far
    outs,           \* what _rebaseUrls returned for each file
    pa,             \* processAssets: "idle", "running", "returned" or "crashed"
    saved,          \* the tasks processJs and processCss: their state and their url
    localFiles,     \* the bundles written below the local roots
    paResult,       \* what processAssets calls back with
    sources,        \* imports.sources: the configured urls of the stylesheets to import
    imp,            \* importLatestStylesheets: "idle", "fetching", "mapping", "returned", "threw"
    srcAt,          \* the source async.eachSeries is at
    numImported,    \* numImported
    fetched,        \* the api urls requested so far, in the order of the requests
    imported,       \* what importLatestStylesheets called back with
    stream,         \* putFile: how many bytes of the file were read from its read stream
    sent            \* putFile: for each attempt, the offset of the first byte it could send

\* the variables of ensureAssets and of the storage client
pipeVars == <<forceCdnUpdate, fsFiles, storage, before, call, callErr, prevOk, prevUrl, pc, path,
              exists, url, result, up, idx, wrapped, put, log, issued, cb>>

\* the variables of the calls of _hashFiles
hashVars == <<hashed, digest>>

\* the variables of the calls of _getFiles
selVars == <<config, calls, spc, pending, gathered, selection, earlier, normalizedFullPath,
            normalized>>

\* the variables of processCss
cssVars == <<sheets, cst, fileAt, currCss, lastIndex, bundle, outs>>

\* the variables of processAssets
locVars == <<pa, saved, localFiles, paResult>>

\* the variables of importLatestStylesheets
impVars == <<sources, imp, srcAt, numImported, fetched, imported>>

\* the variables of the read stream of putFile
fileVars == <<stream, sent>>

vars == <<pipeVars, bytes, hashVars, selVars, cssVars, locVars, impVars, fileVars>>

(***************************************************************************)
(* Values.                                                                 *)
(***************************************************************************)
NoErr == [kind |-> "none", attempt |-> 0]
\* the error the transport hands to the callback of the attempt numbered n
PutErr(n) == [kind |-> "put", attempt |-> n]
\* a probe whose failure is taken for no error
HeadErrSwallowed == NoErr

\* the error headFile hands to the callback of fileExists
HeadErr == [kind |-> "head", attempt |-> 0]

\* a minifier whose failure is taken for no error
MinifyErrSwallowed == NoErr

\* the uglifyError that uglifyjs.minify throws
MinifyErr == [kind |-> "minify", attempt |-> 0]

NoKey == [dir |-> "", name |-> <<>>, ext |-> ""]
NoUrl == [host |-> "", dir |-> "", name |-> <<>>, ext |-> ""]

\* the files of the filesystem: a file is named by a number
FileIds == 1..MaxFiles

\* the selections a class can have on the fixed filesystem
Selections == {[i \in 1..n |-> i] : n \in 0..MaxFiles}

\* the filesystems of the model: a bundled class has no file or MaxFiles files (the number
\* of files of a bundle only changes its key), an image or extra class any selection
FileSystems ==
    {fs \in [Classes -> Selections] : \A c \in Bundled : Len(fs[c]) \in {0, MaxFiles}}

\* fs.readFile(file): the bytes of a file
Content(f) == bytes[f]

RECURSIVE Concat(_)
Concat(files) ==
    IF files = <<>> THEN <<>> ELSE Content(Head(files)) \o Concat(Tail(files))

\* _hashFiles: the digest of the files' bytes in list order (a digest is modelled as the
\* bytes it stands for), and files.length, which is 0, when there is no file
_hashFiles(files) == IF Len(files) = 0 THEN <<0>> ELSE Concat(files)

\* _hashAndGeneratePath: path + '/' + hash + extension
_hashAndGeneratePath(files, dir, ext) == [dir |-> dir, name |-> _hashFiles(files), ext |-> ext]

\* _getImageFolder, _getExtrasFolder with the default folder names: path.sep + name
Folder(c) == IF c = "image" THEN "/img" ELSE "/extra"

\* the key whose existence decides whether class c changed
TargetPath(c, files) ==
    CASE c = "js" -> _hashAndGeneratePath(files, "js", ".js")
      [] c = "css" -> _hashAndGeneratePath(files, "css", ".css")
      [] OTHER -> _hashAndGeneratePath(files, Folder(c), ".txt")

\* getPath.replace('.js', '.map')
MapPath(k) == [k EXCEPT !.ext = ".map"]

\* targetFolder + '/' + _stripRoot(file, activeRoot)
FileTarget(c, f) == [dir |-> Folder(c), name |-> <<f>>, ext |-> "file"]

\* urlWithBucket: the leading slash goes, the bucket's address comes in front
StripSlash(d) ==
    CASE d = "/img" -> "img"
      [] d = "/extra" -> "extra"
      [] OTHER -> d

urlWithBucket(k) ==
    [host |-> "https://s3.amazonaws.com/bucket", dir |-> StripSlash(k.dir),
     name |-> k.name, ext |-> k.ext]

FolderUrl(c) == urlWithBucket([dir |-> Folder(c), name |-> <<>>, ext |-> ""])

RECURSIVE Pow2(_)
Pow2(n) == IF n = 0 THEN 1 ELSE 2 * Pow2(n - 1)

\* a put: the variables of putBuffer and putFile (numTries, fileUpload, the err and the
\* delayTimeoutMs handed to setTimeout) and what happened to it so far: the attempts made,
\* how many of them failed, whether one succeeded, the timers set with a delay
NoPut ==
    [state |-> "off", key |-> NoKey, purpose |-> "", cls |-> "", numTries |-> 0,
     fileUpload |-> NoUrl, err |-> NoErr, delayTimeoutMs |-> 0,
     attempts |-> 0, failures |-> 0, succeeded |-> FALSE, delays |-> 0]

NoCb == [called |-> FALSE, key |-> NoKey, err |-> NoErr, url |-> NoUrl, attempts |-> 0,
         failures |-> 0, succeeded |-> FALSE, delays |-> 0]

NoResult == [set |-> FALSE, url |-> NoUrl, changed |-> FALSE]

NoUp == [compress |-> "wait", upload |-> "wait", map |-> "wait", completed |-> "wait",
         url |-> NoUrl, called |-> FALSE]

Event(name, type, target, changed) ==
    [name |-> name, type |-> type, target |-> target, changed |-> changed, files |-> <<>>]

\* self.emit('minifyStarted', {type: type, files: files}), and the same for minifyEnded
MinifyEvent(name, type, files) ==
    [name |-> name, type |-> type, target |-> NoKey, changed |-> FALSE, files |-> files]

\* the keys whose existence ensureAssets probes on this filesystem
Targets(fs) == {TargetPath(c, fs[c]) : c \in Classes}

NoConfig == [directories |-> <<>>, files |-> <<>>, preference |-> <<>>,
             extensions |-> <<>>, exclude |-> <<>>]

NoEarlier == [gathered |-> <<>>, selection |-> <<>>]

\* no call of _getFiles was made
SelectIdle ==
    /\ config = NoConfig
    /\ calls = 0
    /\ spc = "idle"
    /\ pending = {}
    /\ gathered = <<>>
    /\ selection = <<>>
    /\ earlier = NoEarlier
    /\ normalizedFullPath = FALSE
    /\ normalized = <<>>

NoSheets == <<>>

\* processCss is not called
CssIdle ==
    /\ sheets = NoSheets
    /\ cst = "idle"
    /\ fileAt = 0
    /\ currCss = <<>>
    /\ lastIndex = 0
    /\ bundle = <<>>
    /\ outs = <<>>

\* a value that is not there: undefined
UndefinedUrl == [dir |-> "undefined", name |-> <<>>, ext |-> ""]

\* a task of processAssets that has not called back
NoSaved == [state |-> "wait", url |-> UndefinedUrl]

\* processAssets has not called back
NoAssets == [err |-> FALSE, jsUrl |-> UndefinedUrl, cssUrl |-> UndefinedUrl,
             imagesUrl |-> UndefinedUrl, extrasUrl |-> UndefinedUrl]

\* processAssets is not called
LocalIdle ==
    /\ pa = "idle"
    /\ saved = [c \in Bundled |-> NoSaved]
    /\ localFiles = {}
    /\ paResult = NoAssets

\* importLatestStylesheets has not called back
NoImported == [called |-> FALSE, err |-> "none", numImported |-> 0]

\* importLatestStylesheets is not called
ImportIdle ==
    /\ sources = <<>>
    /\ imp = "idle"
    /\ srcAt = 0
    /\ numImported = 0
    /\ fetched = <<>>
    /\ imported = NoImported

\* putFile is not called
FileIdle ==
    /\ stream = 0
    /\ sent = <<>>

\* the two calls of _hashFiles that are compared
Calls == {"first", "second"}

NoDigest == [set |-> FALSE, hash |-> <<>>, read |-> <<>>]

\* no call of _hashFiles was made
HashIdle ==
    /\ hashed = [h \in Calls |-> <<>>]
    /\ digest = [h \in Calls |-> NoDigest]

Init ==
    /\ bytes = [f \in FileIds |-> <<f>>]
    /\ forceCdnUpdate \in BOOLEAN
    /\ fsFiles \in FileSystems
    /\ storage \in SUBSET Targets(fsFiles)
    /\ before = storage
    /\ call = "idle"
    /\ callErr = NoErr
    /\ prevOk = FALSE
    /\ prevUrl = [c \in Classes |-> NoUrl]
    /\ pc = [c \in Classes |-> "idle"]
    /\ path = [c \in Classes |-> NoKey]
    /\ exists = [c \in Classes |-> "unknown"]
    /\ url = [c \in Classes |-> NoUrl]
    /\ result = [c \in Classes |-> NoResult]
    /\ up = [c \in Bundled |-> NoUp]
    /\ idx = 0
    /\ wrapped = FALSE
    /\ put = [s \in Slots |-> NoPut]
    /\ log = <<>>
    /\ issued = {}
    /\ cb = NoCb
    /\ HashIdle
    /\ SelectIdle
    /\ CssIdle
    /\ LocalIdle
    /\ ImportIdle
    /\ FileIdle


(***************************************************************************)
(* The storage client: S3.prototype.putBuffer and putFile.  Both run the   *)
(* same loop, async.until(test, attempt, callback).                        *)
(***************************************************************************)
Alive == call \in {"running", "returned"}

\* the first pass of async.until: the test fails on a fresh put, so the transport is called
StartPut(k, purpose, c) ==
    [NoPut EXCEPT !.state = "inflight", !.key = k, !.purpose = purpose, !.cls = c,
                  !.attempts = 1]

\* a loop that gives up one attempt early: numTries < maxTries
WillRetryEarly(numTries, err) == numTries < maxTries /\ err # NoErr

\* ++numTries <= maxTries && err
WillRetry(numTries, err) == numTries <= maxTries /\ err # NoErr

\* a retry that does not wait
BackoffNone(numTries) == 0

\* Math.pow(2, 10 + numTries)
Backoff(numTries) == Pow2(10 + numTries)

\* a test that does not look at fileUpload
UntilTestTriesOnly(p) == p.numTries > maxTries

\* the test of async.until: fileUpload || numTries > maxTries
UntilTest(p) == p.fileUpload # NoUrl \/ p.numTries > maxTries

\* the transport's callback of one attempt: function (err, result) { ... setTimeout(...) };
\* fileUpload = result && self.urlWithBucket(path)
AttemptCallback(p, err, answered) ==
    LET n == p.numTries + 1
        retry == WillRetry(n, err)
        delayTimeoutMs == IF retry THEN Backoff(n) ELSE 0
    IN  [p EXCEPT !.state = "timer",
                  !.fileUpload = IF answered THEN urlWithBucket(p.key) ELSE NoUrl,
                  !.numTries = n,
                  !.err = IF retry THEN NoErr ELSE err,
                  !.delayTimeoutMs = delayTimeoutMs,
                  !.failures = IF err = NoErr THEN p.failures ELSE p.failures + 1,
                  !.succeeded = p.succeeded \/ answered,
                  !.delays = IF delayTimeoutMs > 0 THEN p.delays + 1 ELSE p.delays]

\* the callback of an attempt on a transport that answers with a response or with an error
AttemptResponse(p, ok) ==
    AttemptCallback(p, IF ok THEN NoErr ELSE PutErr(p.attempts), ok)

\* the transport answers the attempt in flight; a successful attempt stored the object
PutResponse(s) ==
    /\ Alive
    /\ put[s].state = "inflight"
    /\ \E ok \in BOOLEAN :
          /\ put' = [put EXCEPT ![s] = AttemptResponse(put[s], ok)]
          /\ storage' = IF ok THEN storage \cup {put[s].key} ELSE storage
    /\ cb' = NoCb
    /\ UNCHANGED <<forceCdnUpdate, fsFiles, path, before, call, callErr, prevOk, prevUrl, pc, exists, url, result,
                   up, idx, wrapped, log, issued>>
    /\ UNCHANGED <<impVars, fileVars, bytes, hashVars, selVars, cssVars, locVars>>

\* the timer fires, untilNext(null), and the test of async.until fails: the next attempt
PutRetry(s) ==
    /\ Alive
    /\ put[s].state = "timer"
    /\ put[s].err = NoErr
    /\ ~UntilTest(put[s])
    /\ put' = [put EXCEPT ![s].state = "inflight", ![s].attempts = put[s].attempts + 1,
                          ![s].delayTimeoutMs = 0]
    /\ cb' = NoCb
    /\ UNCHANGED <<forceCdnUpdate, fsFiles, path, before, storage, call, callErr, prevOk, prevUrl, pc, exists, url,
                   result, up, idx, wrapped, log, issued>>
    /\ UNCHANGED <<impVars, fileVars, bytes, hashVars, selVars, cssVars, locVars>>

\* the timer fires and async.until ends: with the error, or because the test holds
Finished(p) == p.state = "timer" /\ (p.err # NoErr \/ UntilTest(p))

\* callback(err, fileUpload)
CallbackOf(p) ==
    [called |-> TRUE, key |-> p.key, err |-> p.err, url |-> p.fileUpload,
     attempts |-> p.attempts, failures |-> p.failures, succeeded |-> p.succeeded,
     delays |-> p.delays]

(***************************************************************************)
(* ensureAssets and the pipeline of one class.                             *)
(***************************************************************************)
\* a failure that ensureAssets does not report
FailSilently(c, e, u) ==
    /\ pc' = [pc EXCEPT ![c] = "failed"]
    /\ url' = [url EXCEPT ![c] = u]
    /\ result' = [result EXCEPT ![c] = [set |-> TRUE, url |-> u, changed |-> exists[c] # "yes"]]
    /\ call' = "returned"
    /\ callErr' = NoErr

\* an error reaches the final callback of the class's async.auto, then that of ensureAssets
Fail(c, e, u) ==
    /\ pc' = [pc EXCEPT ![c] = "failed"]
    /\ url' = [url EXCEPT ![c] = u]
    /\ result' = [result EXCEPT ![c] = [set |-> TRUE, url |-> u, changed |-> exists[c] # "yes"]]
    /\ call' = "returned"
    /\ callErr' = e

\* no put and no task of an earlier call is still at work
Quiescent ==
    /\ \A s \in Slots : put[s].state = "off"
    /\ \A c \in Bundled :
          /\ up[c].compress # "run"
          /\ ~(up[c].compress = "done" /\ up[c].upload = "wait")
          /\ ~(up[c].upload = "done" /\ up[c].completed = "wait")

\* ensureAssets(callback): async.auto starts ensureJs, which lists the JavaScript files
StartCall ==
    /\ call = "idle" \/ (call = "returned" /\ callErr = NoErr)
    /\ Quiescent
    /\ call' = "running"
    /\ callErr' = NoErr
    /\ prevOk' = (call = "returned" /\ callErr = NoErr)
    /\ prevUrl' = [c \in Classes |-> result[c].url]
    /\ path' = [c \in Classes |-> NoKey]
    /\ pc' = [c \in Classes |-> IF c = "js" THEN "getFiles" ELSE "idle"]
    /\ exists' = [c \in Classes |-> "unknown"]
    /\ url' = [c \in Classes |-> NoUrl]
    /\ result' = [c \in Classes |-> NoResult]
    /\ up' = [c \in Bundled |-> NoUp]
    /\ idx' = 0
    /\ wrapped' = FALSE
    /\ log' = <<>>
    /\ issued' = {}
    /\ cb' = NoCb
    /\ before' = storage
    /\ UNCHANGED <<forceCdnUpdate, fsFiles, storage, put>>
    /\ UNCHANGED <<impVars, fileVars, bytes, hashVars, selVars, cssVars, locVars>>

\* a class's task that depends on no other task
ReadyAtOnce(c) == Rank(c) > 1

\* the task a class's task depends on: ensureCss on ensureJs, ensureImages on ensureCss, ...
Ready(c) == Rank(c) > 1 /\ pc[ClassOrder[Rank(c) - 1]] = "done"

\* async.auto starts the task of the next class
EnsureNext(c) ==
    /\ call = "running"
    /\ pc[c] = "idle"
    /\ Ready(c)
    /\ pc' = [pc EXCEPT ![c] = "getFiles"]
    /\ cb' = NoCb
    /\ UNCHANGED <<forceCdnUpdate, fsFiles, path, before, storage, call, callErr, prevOk, prevUrl, exists, url,
                   result, up, idx, wrapped, put, log, issued>>
    /\ UNCHANGED <<impVars, fileVars, bytes, hashVars, selVars, cssVars, locVars>>

\* getJsFiles, getCssFiles, getFiles: the listing is there, the hashing starts
FilesListed(c) ==
    /\ call = "running"
    /\ pc[c] = "getFiles"
    /\ pc' = [pc EXCEPT ![c] = "getPath"]
    /\ cb' = NoCb
    /\ UNCHANGED <<forceCdnUpdate, fsFiles, path, before, storage, call, callErr, prevOk, prevUrl, exists, url,
                   result, up, idx, wrapped, put, log, issued>>
    /\ UNCHANGED <<impVars, fileVars, bytes, hashVars, selVars, cssVars, locVars>>

\* getJsPath, getCssPath, hashAndGeneratePath: the key is there, fileExists probes it
PathGenerated(c) ==
    /\ call = "running"
    /\ pc[c] = "getPath"
    /\ pc' = [pc EXCEPT ![c] = "check"]
    /\ path' = [path EXCEPT ![c] = TargetPath(c, fsFiles[c])]
    /\ cb' = NoCb
    /\ UNCHANGED <<forceCdnUpdate, fsFiles, before, storage, call, callErr, prevOk, prevUrl, exists, url,
                   result, up, idx, wrapped, put, log, issued>>
    /\ UNCHANGED <<impVars, fileVars, bytes, hashVars, selVars, cssVars, locVars>>

\* S3.prototype.fileExists: response && response.statusCode === 200
fileExists(k) == IF k \in storage THEN "yes" ELSE "no"

\* checkJs, checkCss, checkFiles: headFile answers, or fails
HeadResponse(c) ==
    /\ call = "running"
    /\ pc[c] = "check"
    /\ \E ok \in BOOLEAN :
          IF ok
          THEN /\ exists' = [exists EXCEPT ![c] = fileExists(path[c])]
               /\ pc' = [pc EXCEPT ![c] = "update"]
               /\ UNCHANGED <<call, callErr, url, result>>
          ELSE /\ Fail(c, HeadErr, NoUrl)
               /\ UNCHANGED exists
    /\ cb' = NoCb
    /\ UNCHANGED <<forceCdnUpdate, fsFiles, path, before, storage, prevOk, prevUrl, up, idx, wrapped, put, log,
                   issued>>
    /\ UNCHANGED <<impVars, fileVars, bytes, hashVars, selVars, cssVars, locVars>>

\* an update that ignores the force flag
UpdateNeededUnforced(changed, force) == changed

\* an update on every call
UpdateNeededAlways(changed, force) == TRUE

\* jsChanged || self.forceCdnUpdate
UpdateNeeded(changed, force) == changed \/ force

\* an unchanged branch that answers with the folder of the key
KnownUrlFolder(c) == urlWithBucket([path[c] EXCEPT !.name = <<>>, !.ext = ""])

\* the url of the unchanged branch: urlWithBucket(getJsPath), urlWithBucket(getFolder)
KnownUrl(c) ==
    IF c \in Bundled THEN urlWithBucket(path[c]) ELSE FolderUrl(c)

\* a filesChecked event that reports a forced update as a change
CheckedEventForced(c, changed) == Event("filesChecked", c, NoKey, changed \/ forceCdnUpdate)

\* self.emit('filesChecked', {type: type, changed: filesChanged})
CheckedEvent(c, changed) == Event("filesChecked", c, NoKey, changed)

\* updateJsIfNeeded, updateCssIfNeeded, updateIfNeeded
UpdateIfNeeded(c) ==
    /\ call = "running"
    /\ pc[c] = "update"
    /\ LET changed == exists[c] = "no"
       IN  /\ log' = Append(log, CheckedEvent(c, changed))
           /\ IF UpdateNeeded(changed, forceCdnUpdate)
              THEN /\ pc' = [pc EXCEPT ![c] = IF c \in Bundled THEN "source" ELSE "upGetFiles"]
                   /\ UNCHANGED url
              ELSE /\ pc' = [pc EXCEPT ![c] = "updated"]
                   /\ url' = [url EXCEPT ![c] = KnownUrl(c)]
    /\ cb' = NoCb
    /\ UNCHANGED <<forceCdnUpdate, fsFiles, path, before, storage, call, callErr, prevOk, prevUrl, exists, result,
                   up, idx, wrapped, put, issued>>
    /\ UNCHANGED <<impVars, fileVars, bytes, hashVars, selVars, cssVars, locVars>>


(***************************************************************************)
(* uploadJavaScriptToCdn and uploadCssToCdn: an async.auto of the tasks    *)
(* getSource, compress, upload, (uploadMap,) uploadCompleted.  A task that *)
(* became ready starts on the tick after the task it waited for, and the   *)
(* tasks of an auto go on after one of them failed.                        *)
(***************************************************************************)
\* processJavaScript, processCss: getFiles (and, for JavaScript, getPath) are done
SourceListed(c) ==
    /\ call = "running"
    /\ c \in Bundled
    /\ pc[c] = "source"
    /\ pc' = [pc EXCEPT ![c] = "minify"]
    /\ cb' = NoCb
    /\ UNCHANGED <<forceCdnUpdate, fsFiles, path, before, storage, call, callErr, prevOk, prevUrl, exists, url,
                   result, up, idx, wrapped, put, log, issued>>
    /\ UNCHANGED <<impVars, fileVars, bytes, hashVars, selVars, cssVars, locVars>>

\* uglifyjs.minify is called, and can throw, when there is a JavaScript file
MinifierCalled(c) == c = "js" /\ fsFiles[c] # <<>>

\* the minify task of processJavaScript, the cleanCss task of processCss: minifyStarted,
\* then the minifier.  When uglifyjs.minify throws, next(err, ...) takes the error through
\* the callbacks of processJavaScript, uploadJavaScriptToCdn (whose other tasks wait for
\* getSource and never start) and updateJsIfNeeded to the callback of ensureAssets.
Minify(c) ==
    /\ call = "running"
    /\ c \in Bundled
    /\ pc[c] = "minify"
    /\ log' = Append(log, MinifyEvent("minifyStarted", c, fsFiles[c]))
    /\ \E threw \in BOOLEAN :
          /\ threw => MinifierCalled(c)
          /\ IF threw
             THEN Fail(c, MinifyErr, NoUrl)
             ELSE /\ pc' = [pc EXCEPT ![c] = "sourced"]
                  /\ UNCHANGED <<call, callErr, url, result>>
    /\ cb' = NoCb
    /\ UNCHANGED <<forceCdnUpdate, fsFiles, path, before, storage, prevOk, prevUrl, exists,
                   up, idx, wrapped, put, issued>>
    /\ UNCHANGED <<impVars, fileVars, bytes, hashVars, selVars, cssVars, locVars>>

\* getSource is done.  JavaScript: uploadMap puts the source map and compressJs starts;
\* with no file there is no map, and new Buffer(undefined) throws in putBuffer.
\* CSS: compressCss starts.
Sourced(c) ==
    /\ call = "running"
    /\ c \in Bundled
    /\ pc[c] = "sourced"
    /\ IF c = "js" /\ fsFiles[c] = <<>>
       THEN /\ call' = "crashed"
            /\ UNCHANGED <<pc, up, put, issued>>
       ELSE /\ pc' = [pc EXCEPT ![c] = "upload"]
            /\ up' = [up EXCEPT ![c] = [NoUp EXCEPT !.compress = "run",
                                                    !.map = IF c = "js" THEN "run" ELSE "none"]]
            /\ IF c = "js"
               THEN /\ put' = [put EXCEPT !["map"] =
                                  StartPut(MapPath(TargetPath(c, fsFiles[c])), "map", c)]
                    /\ issued' = issued \cup {MapPath(TargetPath(c, fsFiles[c]))}
               ELSE UNCHANGED <<put, issued>>
            /\ UNCHANGED call
    /\ cb' = NoCb
    /\ UNCHANGED <<forceCdnUpdate, fsFiles, path, before, storage, callErr, prevOk, prevUrl, exists, url, result,
                   idx, wrapped, log>>
    /\ UNCHANGED <<impVars, fileVars, bytes, hashVars, selVars, cssVars, locVars>>

\* zlib.gzip calls back
Compressed(c) ==
    /\ Alive
    /\ c \in Bundled
    /\ up[c].compress = "run"
    /\ up' = [up EXCEPT ![c].compress = "done"]
    /\ cb' = NoCb
    /\ UNCHANGED <<forceCdnUpdate, fsFiles, path, before, storage, call, callErr, prevOk, prevUrl, pc, exists, url,
                   result, idx, wrapped, put, log, issued>>
    /\ UNCHANGED <<impVars, fileVars, bytes, hashVars, selVars, cssVars, locVars>>

\* uploadStarted emitted before minifyEnded
BundleEventsSwapped(c, target) ==
    <<Event("uploadStarted", c, target, FALSE), MinifyEvent("minifyEnded", c, fsFiles[c])>>

\* the events of the uploadJs and uploadCss tasks, in the order they are emitted
BundleEvents(c, target) ==
    <<MinifyEvent("minifyEnded", c, fsFiles[c]), Event("uploadStarted", c, target, FALSE)>>

\* the uploadJs, uploadCss task: minifyEnded, uploadStarted, putBuffer(gzip, targetPath)
UploadBundle(c) ==
    /\ Alive
    /\ c \in Bundled
    /\ up[c].compress = "done"
    /\ up[c].upload = "wait"
    /\ put["main"].state = "off"
    /\ LET target == TargetPath(c, fsFiles[c])
       IN  /\ log' = log \o BundleEvents(c, target)
           /\ put' = [put EXCEPT !["main"] = StartPut(target, "bundle", c)]
           /\ issued' = issued \cup {target}
    /\ up' = [up EXCEPT ![c].upload = "run"]
    /\ cb' = NoCb
    /\ UNCHANGED <<forceCdnUpdate, fsFiles, path, before, storage, call, callErr, prevOk, prevUrl, pc, exists, url,
                   result, idx, wrapped>>
    /\ UNCHANGED <<impVars, fileVars, bytes, hashVars, selVars, cssVars, locVars>>

\* the callback of the bundle's put: next(err, url) of uploadJs, uploadCss
PutBundleCallback(c) ==
    /\ Alive
    /\ c \in Bundled
    /\ Finished(put["main"])
    /\ put["main"].purpose = "bundle"
    /\ put["main"].cls = c
    /\ LET p == put["main"]
       IN  /\ cb' = CallbackOf(p)
           /\ IF p.err # NoErr
              THEN /\ up' = [up EXCEPT ![c].upload = "fail", ![c].called = TRUE]
                   /\ IF up[c].called
                      THEN UNCHANGED <<pc, url, result, call, callErr>>
                      ELSE Fail(c, p.err, NoUrl)
              ELSE /\ up' = [up EXCEPT ![c].upload = "done", ![c].url = p.fileUpload]
                   /\ UNCHANGED <<pc, url, result, call, callErr>>
    /\ put' = [put EXCEPT !["main"] = NoPut]
    /\ UNCHANGED <<forceCdnUpdate, fsFiles, path, before, storage, prevOk, prevUrl, exists, idx, wrapped, log,
                   issued>>
    /\ UNCHANGED <<impVars, fileVars, bytes, hashVars, selVars, cssVars, locVars>>

\* the callback of the source map's put: next(err) of uploadMap
PutMapCallback ==
    /\ Alive
    /\ Finished(put["map"])
    /\ LET p == put["map"]
           c == p.cls
       IN  /\ cb' = CallbackOf(p)
           /\ IF p.err # NoErr
              THEN /\ up' = [up EXCEPT ![c].map = "fail", ![c].called = TRUE]
                   /\ IF up[c].called
                      THEN UNCHANGED <<pc, url, result, call, callErr>>
                      ELSE Fail(c, p.err, up[c].url)
              ELSE /\ up' = [up EXCEPT ![c].map = "done"]
                   /\ UNCHANGED <<pc, url, result, call, callErr>>
    /\ put' = [put EXCEPT !["map"] = NoPut]
    /\ UNCHANGED <<forceCdnUpdate, fsFiles, path, before, storage, prevOk, prevUrl, exists, idx, wrapped, log,
                   issued>>
    /\ UNCHANGED <<impVars, fileVars, bytes, hashVars, selVars, cssVars, locVars>>

\* the uploadCompleted task: uploadEnded
UploadCompleted(c) ==
    /\ Alive
    /\ c \in Bundled
    /\ up[c].upload = "done"
    /\ up[c].completed = "wait"
    /\ log' = Append(log, Event("uploadEnded", c, TargetPath(c, fsFiles[c]), FALSE))
    /\ up' = [up EXCEPT ![c].completed = "done"]
    /\ cb' = NoCb
    /\ UNCHANGED <<forceCdnUpdate, fsFiles, path, before, storage, call, callErr, prevOk, prevUrl, pc, exists, url,
                   result, idx, wrapped, put, issued>>
    /\ UNCHANGED <<impVars, fileVars, bytes, hashVars, selVars, cssVars, locVars>>

\* every task of the auto is done: callback(null, results.uploadJs), the next of updateJsIfNeeded
UploadFinished(c) ==
    /\ call = "running"
    /\ c \in Bundled
    /\ pc[c] = "upload"
    /\ ~up[c].called
    /\ up[c].compress = "done"
    /\ up[c].upload = "done"
    /\ up[c].completed = "done"
    /\ up[c].map \in {"done", "none"}
    /\ up' = [up EXCEPT ![c].called = TRUE]
    /\ url' = [url EXCEPT ![c] = up[c].url]
    /\ pc' = [pc EXCEPT ![c] = "updated"]
    /\ cb' = NoCb
    /\ UNCHANGED <<forceCdnUpdate, fsFiles, path, before, storage, call, callErr, prevOk, prevUrl, exists, result,
                   idx, wrapped, put, log, issued>>
    /\ UNCHANGED <<impVars, fileVars, bytes, hashVars, selVars, cssVars, locVars>>


(***************************************************************************)
(* uploadImagesToCdn, uploadExtrasToCdn and the marker object.             *)
(***************************************************************************)
\* an event of the child emitter reaches the AssetProcessor's listeners once
\* _wrapUploadEmitter has attached its own
ChildEmit(attached, l, e) == IF attached THEN Append(l, e) ELSE l

\* the uploadImages, uploadExtras task:
\* _wrapUploadEmitter(self, _uploadRelativeToRoot(files, root, folder, s3, next), type).
\* _uploadRelativeToRoot runs first: async.eachSeries starts on the first file at once,
\* which emits uploadStarted on the new emitter and calls putFile; with no file it calls
\* back at once.  Only then does _wrapUploadEmitter attach its listeners.
UploadRelative(c) ==
    /\ call = "running"
    /\ c \in Relative
    /\ pc[c] = "upGetFiles"
    /\ put["main"].state = "off"
    /\ IF fsFiles[c] = <<>>
       THEN /\ pc' = [pc EXCEPT ![c] = "filesUploaded"]
            /\ UNCHANGED <<idx, put, log, issued>>
       ELSE LET target == FileTarget(c, fsFiles[c][1])
            IN  /\ log' = ChildEmit(FALSE, log, Event("uploadStarted", c, target, FALSE))
                /\ put' = [put EXCEPT !["main"] = StartPut(target, "file", c)]
                /\ issued' = issued \cup {target}
                /\ idx' = 1
                /\ pc' = [pc EXCEPT ![c] = "putFile"]
    /\ wrapped' = TRUE
    /\ cb' = NoCb
    /\ UNCHANGED <<forceCdnUpdate, fsFiles, path, before, storage, call, callErr, prevOk, prevUrl, exists, url,
                   result, up>>
    /\ UNCHANGED <<impVars, fileVars, bytes, hashVars, selVars, cssVars, locVars>>

\* the callback of a file's put: uploadEnded, eachNext(err); then the next file's
\* uploadStarted and putFile, or the end of the loop
PutFileCallback(c) ==
    /\ Alive
    /\ c \in Relative
    /\ Finished(put["main"])
    /\ put["main"].purpose = "file"
    /\ put["main"].cls = c
    /\ LET p == put["main"]
           ended == ChildEmit(wrapped, log, Event("uploadEnded", c, p.key, FALSE))
       IN  /\ cb' = CallbackOf(p)
           /\ IF p.err # NoErr
              THEN /\ log' = ended
                   /\ put' = [put EXCEPT !["main"] = NoPut]
                   /\ Fail(c, p.err, FolderUrl(c))
                   /\ UNCHANGED <<idx, issued>>
              ELSE IF idx < Len(fsFiles[c])
                   THEN LET target == FileTarget(c, fsFiles[c][idx + 1])
                        IN  /\ log' = ChildEmit(wrapped, ended,
                                                Event("uploadStarted", c, target, FALSE))
                            /\ put' = [put EXCEPT !["main"] = StartPut(target, "file", c)]
                            /\ issued' = issued \cup {target}
                            /\ idx' = idx + 1
                            /\ UNCHANGED <<pc, url, result, call, callErr>>
                   ELSE /\ log' = ended
                        /\ put' = [put EXCEPT !["main"] = NoPut]
                        /\ pc' = [pc EXCEPT ![c] = "filesUploaded"]
                        /\ UNCHANGED <<idx, issued, url, result, call, callErr>>
    /\ UNCHANGED <<forceCdnUpdate, fsFiles, path, before, storage, prevOk, prevUrl, exists, up, wrapped>>
    /\ UNCHANGED <<impVars, fileVars, bytes, hashVars, selVars, cssVars, locVars>>

\* the final callback of uploadImagesToCdn: the next of updateIfNeeded
FilesUploaded(c) ==
    /\ call = "running"
    /\ c \in Relative
    /\ pc[c] = "filesUploaded"
    /\ url' = [url EXCEPT ![c] = FolderUrl(c)]
    /\ pc' = [pc EXCEPT ![c] = "updated"]
    /\ cb' = NoCb
    /\ UNCHANGED <<forceCdnUpdate, fsFiles, path, before, storage, call, callErr, prevOk, prevUrl, exists, result,
                   up, idx, wrapped, put, log, issued>>
    /\ UNCHANGED <<impVars, fileVars, bytes, hashVars, selVars, cssVars, locVars>>

\* a marker written when it exists, and not when it is missing
MarkerNeededInverted(found) == found = "yes"

\* a marker that a forced update writes again
MarkerNeededOrForced(found) == found # "yes" \/ forceCdnUpdate

\* if (!results.checkFiles)
MarkerNeeded(found) == found # "yes"

\* an indicator task that waits for the probe only: ['checkFiles', ...]
IndicatorReadyAfterCheck(c) == pc[c] \in {"upGetFiles", "updated"}

\* uploadIndicatorFileIfNeeded: ['updateIfNeeded', ...]: the task starts once the task
\* updateIfNeeded has called back without an error
IndicatorReady(c) == pc[c] = "updated"

\* uploadIndicatorFileIfNeeded
UploadIndicator(c) ==
    /\ call = "running"
    /\ c \in Relative
    /\ IndicatorReady(c)
    /\ put["main"].state = "off"
    /\ IF MarkerNeeded(exists[c])
       THEN LET target == path[c]
            IN  /\ log' = Append(log, Event("uploadStarted", c, target, FALSE))
                /\ put' = [put EXCEPT !["main"] = StartPut(target, "marker", c)]
                /\ issued' = issued \cup {target}
                /\ pc' = [pc EXCEPT ![c] = "putMarker"]
       ELSE /\ pc' = [pc EXCEPT ![c] = "finishing"]
            /\ UNCHANGED <<log, put, issued>>
    /\ cb' = NoCb
    /\ UNCHANGED <<forceCdnUpdate, fsFiles, path, before, storage, call, callErr, prevOk, prevUrl, exists, url,
                   result, up, idx, wrapped>>
    /\ UNCHANGED <<impVars, fileVars, bytes, hashVars, selVars, cssVars, locVars>>

\* the callback of the marker's put: uploadEnded, next(err)
PutMarkerCallback(c) ==
    /\ Alive
    /\ c \in Relative
    /\ Finished(put["main"])
    /\ put["main"].purpose = "marker"
    /\ put["main"].cls = c
    /\ LET p == put["main"]
       IN  /\ cb' = CallbackOf(p)
           /\ log' = Append(log, Event("uploadEnded", c, p.key, FALSE))
           /\ IF p.err # NoErr
              THEN Fail(c, p.err, url[c])
              ELSE /\ pc' = [pc EXCEPT ![c] = "finishing"]
                   /\ UNCHANGED <<url, result, call, callErr>>
    /\ put' = [put EXCEPT !["main"] = NoPut]
    /\ UNCHANGED <<forceCdnUpdate, fsFiles, path, before, storage, prevOk, prevUrl, exists, up, idx, wrapped,
                   issued>>
    /\ UNCHANGED <<impVars, fileVars, bytes, hashVars, selVars, cssVars, locVars>>

(***************************************************************************)
(* The end of a class's pipeline and of ensureAssets.                      *)
(***************************************************************************)
\* a changed flag without the negation
ChangedInverted(found) == found = "yes"

\* jsChanged: results && !results.checkJs
Changed(found) == found # "yes"

\* the final callback of _checkAndUpdateJavaScript, _checkAndUpdateCss, _checkRelativeToRoot
ClassDone(c) ==
    /\ call = "running"
    /\ pc[c] = IF c \in Bundled THEN "updated" ELSE "finishing"
    /\ result' = [result EXCEPT ![c] = [set |-> TRUE, url |-> url[c],
                                         changed |-> Changed(exists[c])]]
    /\ pc' = [pc EXCEPT ![c] = "done"]
    /\ cb' = NoCb
    /\ UNCHANGED <<forceCdnUpdate, fsFiles, path, before, storage, call, callErr, prevOk, prevUrl, exists, url, up,
                   idx, wrapped, put, log, issued>>
    /\ UNCHANGED <<impVars, fileVars, bytes, hashVars, selVars, cssVars, locVars>>

\* the final callback of ensureAssets: callback(null, result)
Return ==
    /\ call = "running"
    /\ \A c \in Classes : pc[c] = "done"
    /\ call' = "returned"
    /\ callErr' = NoErr
    /\ cb' = NoCb
    /\ UNCHANGED <<forceCdnUpdate, fsFiles, path, before, storage, prevOk, prevUrl, pc, exists, url, result, up,
                   idx, wrapped, put, log, issued>>
    /\ UNCHANGED <<impVars, fileVars, bytes, hashVars, selVars, cssVars, locVars>>

Next ==
    \/ StartCall
    \/ \E c \in Classes : EnsureNext(c)
    \/ \E c \in Classes : FilesListed(c)
    \/ \E c \in Classes : PathGenerated(c)
    \/ \E c \in Classes : HeadResponse(c)
    \/ \E c \in Classes : UpdateIfNeeded(c)
    \/ \E c \in Classes : SourceListed(c)
    \/ \E c \in Classes : Minify(c)
    \/ \E c \in Classes : Sourced(c)
    \/ \E c \in Classes : Compressed(c)
    \/ \E c \in Classes : UploadBundle(c)
    \/ \E c \in Classes : PutBundleCallback(c)
    \/ PutMapCallback
    \/ \E c \in Classes : UploadCompleted(c)
    \/ \E c \in Classes : UploadFinished(c)
    \/ \E c \in Classes : UploadRelative(c)
    \/ \E c \in Classes : PutFileCallback(c)
    \/ \E c \in Classes : FilesUploaded(c)
    \/ \E c \in Classes : UploadIndicator(c)
    \/ \E c \in Classes : PutMarkerCallback(c)
    \/ \E c \in Classes : ClassDone(c)
    \/ Return
    \/ \E s \in Slots : PutResponse(s)
    \/ \E s \in Slots : PutRetry(s)

Spec == Init /\ [][Next]_vars


(***************************************************************************)
(* Properties of ensureAssets.                                             *)
(***************************************************************************)
ReturnedOk == call = "returned" /\ callErr = NoErr

Target(c) == TargetPath(c, fsFiles[c])

UploadNames == {"uploadStarted", "uploadEnded"}

\* the names of the events of class c, in the order the listener saw them
NamesOf(c) ==
    LET OfClass(e) == e.type = c
        es == SelectSeq(log, OfClass)
    IN  [i \in 1..Len(es) |-> es[i].name]

IsPrefix(a, b) == Len(a) <= Len(b) /\ \A i \in 1..Len(a) : a[i] = b[i]

\* C1: after a call of ensureAssets that called back without an error, a second call with
\* the same filesystem and without the force flag emits no uploadStarted and no
\* uploadEnded event, and when it calls back without an error it reports changed = false
\* for each of the four classes.
IdempotentPublish ==
    (prevOk /\ ~forceCdnUpdate) =>
        /\ \A i \in 1..Len(log) : log[i].name \notin UploadNames
        /\ ReturnedOk => \A c \in Classes : result[c].set /\ ~result[c].changed

\* a second call has called back after a first call that uploaded the JavaScript bundle
\* with its source map and an image
IdempotentPublishWitness ==
    /\ prevOk
    /\ ~forceCdnUpdate
    /\ ReturnedOk
    /\ MapPath(Target("js")) \in storage
    /\ FileTarget("image", 1) \in storage

\* C2 as stated: the changed flag of a class is true if and only if its target key did not
\* exist before the call or the force flag was set.
ChangedIffAbsentOrForced ==
    \A c \in Classes :
        pc[c] = "done" => (result[c].changed <=> (Target(c) \notin before \/ forceCdnUpdate))

\* C2, amended: the changed flag of a class is true if and only if its target key did not
\* exist before the call, with or without the force flag.
ChangedIffAbsent ==
    \A c \in Classes : pc[c] = "done" => (result[c].changed <=> Target(c) \notin before)

\* a forced call has finished a class whose target existed, and one whose target did not
ChangedIffAbsentWitness ==
    /\ forceCdnUpdate
    /\ pc["css"] = "done"
    /\ Target("js") \in before
    /\ Target("css") \notin before

\* C3: with the force flag set, a class that ensureAssets has finished had its bundle put
\* (js, css) or each of its selected files put (images, extras), also when its target key
\* existed.
ForcedRepublish ==
    forceCdnUpdate =>
        /\ \A c \in Bundled : pc[c] = "done" => Target(c) \in issued
        /\ \A c \in Relative :
              pc[c] = "done" =>
                  \A i \in 1..Len(fsFiles[c]) : FileTarget(c, fsFiles[c][i]) \in issued

\* a forced call has called back without an error, all four targets existed before and
\* the images and the extras have MaxFiles files each
ForcedRepublishWitness ==
    /\ forceCdnUpdate
    /\ ReturnedOk
    /\ \A c \in Classes : Target(c) \in before
    /\ \A c \in Relative : Len(fsFiles[c]) = MaxFiles

\* the pipeline of class c is over: its task is done and no put and no task of it is at work
PipelineCompleted(c) ==
    /\ pc[c] = "done"
    /\ \A s \in Slots : put[s].state # "off" => put[s].cls # c
    /\ c \in Bundled =>
          /\ up[c].compress # "run"
          /\ up[c].upload # "run"
          /\ up[c].map # "run"

\* C4: the classes are processed in the order js, css, images, extras: when the pipeline
\* of a class has started (its files are being selected, its key probed, its objects
\* put), the pipeline of every class before it is over.
ClassesInOrder ==
    \A c \in Classes :
        pc[c] # "idle" => \A d \in Classes : Rank(d) < Rank(c) => PipelineCompleted(d)

\* the extras have a put in flight after the JavaScript bundle, its source map, the CSS
\* bundle and the images were put
ClassesInOrderWitness ==
    /\ pc["extra"] = "putFile"
    /\ put["main"].state = "inflight"
    /\ {Target("js"), MapPath(Target("js")), Target("css"), FileTarget("image", 1)}
          \subseteq issued


(***************************************************************************)
(* Properties of the storage client's puts.                                *)
(***************************************************************************)
\* C5: a put makes at most 4 transport attempts, and no attempt is in flight after an
\* attempt of the same put succeeded.
AtMostFourAttempts ==
    /\ \A s \in Slots :
          /\ put[s].attempts <= 4
          /\ put[s].state = "inflight" => ~put[s].succeeded
    /\ cb.attempts <= 4

\* the fourth attempt of a put is in flight
AtMostFourAttemptsWitness ==
    \E s \in Slots : put[s].state = "inflight" /\ put[s].attempts = 4

\* C6: a put whose transport failed k times (k = 1, 2 or 3) and then succeeded calls back
\* with the public URL of its key and no error, after exactly k timers with a backoff
\* delay; once an attempt succeeded the next timer ends the put.
RetryThenSuccess ==
    /\ (cb.called /\ cb.succeeded /\ cb.failures \in 1..3) =>
          /\ cb.err = NoErr
          /\ cb.url = urlWithBucket(cb.key)
          /\ cb.delays = cb.failures
          /\ cb.attempts = cb.failures + 1
    /\ \A s \in Slots : (put[s].state = "timer" /\ put[s].succeeded) => Finished(put[s])

\* a put called back after two failed attempts and a third that succeeded
RetryThenSuccessWitness ==
    cb.called /\ cb.succeeded /\ cb.failures = 2 /\ cb.delays = 2 /\ cb.err = NoErr

\* C7: a put whose transport failed on every attempt calls back after the fourth attempt,
\* with the error of the fourth attempt and without a URL.
ExhaustedRetries ==
    (cb.called /\ ~cb.succeeded) =>
        /\ cb.attempts = 4
        /\ cb.err = PutErr(4)
        /\ cb.url = NoUrl

\* a put called back after four failed attempts
ExhaustedRetriesWitness == cb.called /\ ~cb.succeeded /\ cb.failures = 4

(***************************************************************************)
(* Properties of the events.                                               *)
(***************************************************************************)
Phases == <<"filesChecked", "minifyStarted", "minifyEnded", "uploadStarted", "uploadEnded">>

\* C8: for js and css, the events of the class are at each moment a prefix of
\* filesChecked, minifyStarted, minifyEnded, uploadStarted, uploadEnded, and they are
\* exactly these five once ensureAssets has finished the class with its bundle put.
BundlePhasesInOrder ==
    \A c \in Bundled :
        /\ IsPrefix(NamesOf(c), Phases)
        /\ (pc[c] = "done" /\ Target(c) \in issued) => NamesOf(c) = Phases

\* the CSS bundle was put and its class is finished
BundlePhasesInOrderWitness ==
    /\ pc["css"] = "done"
    /\ Target("css") \in issued
    /\ Target("js") \in issued

FirstOf(c) ==
    LET OfClass(e) == e.type = c
    IN  Head(SelectSeq(log, OfClass))

\* C9: a class that ensureAssets has finished has exactly one filesChecked event, in the
\* changed and in the unchanged branch; the event carries changed = (the target key did
\* not exist), and it is the first event of its class.
OneFilesChecked ==
    \A c \in Classes :
        LET n == Len(SelectSeq(NamesOf(c), LAMBDA x : x = "filesChecked"))
        IN  /\ n <= 1
            /\ NamesOf(c) # <<>> =>
                  /\ FirstOf(c).name = "filesChecked"
                  /\ FirstOf(c).changed = (Target(c) \notin before)
            /\ pc[c] = "done" => n = 1

\* a forced call has finished the images, whose marker existed, after a changed class
OneFilesCheckedWitness ==
    /\ forceCdnUpdate
    /\ pc["image"] = "done"
    /\ Target("image") \in before
    /\ Target("css") \notin before
    /\ Len(fsFiles["image"]) = MaxFiles

\* C10 as stated: each uploadEnded event the listener sees comes after an uploadStarted
\* event for the same target.
UploadEventsPaired ==
    \A i \in 1..Len(log) :
        log[i].name = "uploadEnded" =>
            \E j \in 1..(i - 1) :
                /\ log[j].name = "uploadStarted"
                /\ log[j].type = log[i].type
                /\ log[j].target = log[i].target

(***************************************************************************)
(* Properties of the two branches and of the failures of ensureAssets.     *)
(***************************************************************************)
\* the keys the pipeline of class c can put: its target, the source map, its files
KeysOf(c) ==
    {Target(c)} \cup (IF c = "js" THEN {MapPath(Target(c))} ELSE {})
                \cup (IF c \in Relative
                      THEN {FileTarget(c, fsFiles[c][i]) : i \in 1..Len(fsFiles[c])}
                      ELSE {})

\* the folder a key lies in
FolderOf(k) == [k EXCEPT !.name = <<>>, !.ext = ""]

\* C11: when the target key of a class existed before the call and the force flag is not
\* set, ensureAssets makes no put for the class and does not minify it, the class's keys
\* in storage are the ones that were there before, and the class's url in the result is
\* the public URL of the existing target (js, css) or of the target's folder (images,
\* extras).
UnchangedBranchSkips ==
    \A c \in Classes :
        (call # "idle" /\ Target(c) \in before /\ ~forceCdnUpdate) =>
            /\ issued \cap KeysOf(c) = {}
            /\ \A s \in Slots : put[s].cls # c
            /\ \A i \in 1..Len(log) :
                  log[i].type = c => log[i].name \notin {"minifyStarted", "minifyEnded"}
            /\ storage \cap KeysOf(c) = before \cap KeysOf(c)
            /\ pc[c] = "done" =>
                  result[c].url = urlWithBucket(IF c \in Bundled THEN Target(c)
                                                ELSE FolderOf(Target(c)))

\* an unforced call has finished the JavaScript and the images, whose targets existed,
\* and uploaded the CSS bundle, whose target did not
UnchangedBranchSkipsWitness ==
    /\ ~forceCdnUpdate
    /\ pc["image"] = "done"
    /\ Target("js") \in before
    /\ Target("image") \in before
    /\ Target("css") \notin before
    /\ Target("css") \in storage
    /\ Len(fsFiles["image"]) = MaxFiles

\* C12: the key a JS or CSS bundle is put to is the key whose existence was probed; the url
\* of a class in the result of a call equals its url in the result of the call before it
\* on the same filesystem; the url of a finished class is defined in both branches.
SameKeySameUrl ==
    /\ \A s \in Slots : put[s].purpose = "bundle" => put[s].key = path[put[s].cls]
    /\ \A c \in Classes :
          pc[c] = "done" =>
              /\ result[c].url # NoUrl
              /\ prevOk => result[c].url = prevUrl[c]

\* an unforced second call has finished the CSS after a first call that uploaded the
\* JavaScript bundle with its source map and the CSS bundle
SameKeySameUrlWitness ==
    /\ prevOk
    /\ ~forceCdnUpdate
    /\ pc["css"] = "done"
    /\ fsFiles["css"] # <<>>
    /\ MapPath(Target("js")) \in storage
    /\ result["css"].url = urlWithBucket(Target("css"))

\* C13: when the existence probe of a class fails, no put is made for the class, no
\* filesChecked event (and no other event) is emitted for it, and ensureAssets calls back
\* with the error of the probe.
ProbeFailureIsFatal ==
    \A c \in Classes :
        (pc[c] = "failed" /\ exists[c] = "unknown") =>
            /\ call = "returned"
            /\ callErr.kind = "head"
            /\ issued \cap KeysOf(c) = {}
            /\ \A i \in 1..Len(log) : log[i].type # c

\* the probe of the CSS failed after the JavaScript bundle was put
ProbeFailureIsFatalWitness ==
    /\ pc["css"] = "failed"
    /\ exists["css"] = "unknown"
    /\ Target("js") \in issued

\* when the pipeline of a class failed, ensureAssets has called back with an error and no
\* later class has started: nothing selected, probed, emitted or put for it
FailureStopsLaterClasses ==
    \A c \in Classes :
        pc[c] = "failed" =>
            /\ call = "returned"
            /\ callErr # NoErr
            /\ \A d \in Classes :
                  Rank(d) > Rank(c) =>
                      /\ pc[d] = "idle"
                      /\ path[d] = NoKey
                      /\ exists[d] = "unknown"
                      /\ issued \cap KeysOf(d) = {}
                      /\ \A i \in 1..Len(log) : log[i].type # d

\* C14: when the pipeline of a class fails, the pipelines of the later classes are never
\* started, ensureAssets reports the error, and no step takes an object out of storage:
\* what was put before the failure is still there after it.
FailureAbortsWithoutRollback ==
    /\ []FailureStopsLaterClasses
    /\ [][storage \subseteq storage']_vars

\* the put of the CSS bundle failed four times; the JavaScript bundle put in this call is
\* in storage
FailureAbortsWithoutRollbackWitness ==
    /\ pc["css"] = "failed"
    /\ callErr = PutErr(4)
    /\ Target("js") \notin before
    /\ Target("js") \in storage
    /\ pc["image"] = "idle"

\* C15 as stated: for a class whose selection is empty ensureAssets makes no put (no
\* bundle, no file, no marker) and does not fail.
EmptySelectionPublishesNothing ==
    \A c \in Classes :
        fsFiles[c] = <<>> =>
            /\ issued \cap KeysOf(c) = {}
            /\ pc[c] # "failed"
            /\ ~(call = "crashed" /\ pc[c] \notin {"idle", "done"})


(***************************************************************************)
(* The hasher: _hashFiles called on two file lists, with the files of the  *)
(* filesystem rewritten in between.                                        *)
(***************************************************************************)
\* ensureAssets is not called: an instance with no file and an empty bucket
PipelineIdle ==
    /\ forceCdnUpdate = FALSE
    /\ fsFiles = [c \in Classes |-> <<>>]
    /\ storage = {}
    /\ before = {}
    /\ call = "idle"
    /\ callErr = NoErr
    /\ prevOk = FALSE
    /\ prevUrl = [c \in Classes |-> NoUrl]
    /\ pc = [c \in Classes |-> "idle"]
    /\ path = [c \in Classes |-> NoKey]
    /\ exists = [c \in Classes |-> "unknown"]
    /\ url = [c \in Classes |-> NoUrl]
    /\ result = [c \in Classes |-> NoResult]
    /\ up = [c \in Bundled |-> NoUp]
    /\ idx = 0
    /\ wrapped = FALSE
    /\ put = [s \in Slots |-> NoPut]
    /\ log = <<>>
    /\ issued = {}
    /\ cb = NoCb

\* the bytes a file can hold
ByteStrings == {<<>>, <<1>>, <<2>>}

\* the lists _hashFiles can be called with: any files in any order
FileLists == UNION {[1..n -> FileIds] : n \in 0..MaxFiles}

HashInit ==
    /\ bytes \in [FileIds -> ByteStrings]
    /\ hashed \in [Calls -> FileLists]
    /\ digest = [h \in Calls |-> NoDigest]
    /\ PipelineIdle
    /\ SelectIdle
    /\ CssIdle
    /\ LocalIdle
    /\ ImportIdle
    /\ FileIdle

\* _hashFiles(files, callback): the files are read in list order, callback(err, hash)
HashFiles(h) ==
    /\ ~digest[h].set
    /\ h = "second" => digest["first"].set
    /\ digest' = [digest EXCEPT ![h] =
                     [set |-> TRUE, hash |-> _hashFiles(hashed[h]),
                      read |-> [i \in 1..Len(hashed[h]) |-> Content(hashed[h][i])]]]
    /\ UNCHANGED <<impVars, fileVars, pipeVars, bytes, hashed, selVars, cssVars, locVars>>

\* a file is rewritten between the two calls
WriteFile(f, b) ==
    /\ digest["first"].set
    /\ ~digest["second"].set
    /\ bytes[f] # b
    /\ bytes' = [bytes EXCEPT ![f] = b]
    /\ UNCHANGED <<impVars, fileVars, pipeVars, hashVars, selVars, cssVars, locVars>>

HashNext ==
    \/ \E h \in Calls : HashFiles(h)
    \/ \E f \in FileIds, b \in ByteStrings : WriteFile(f, b)

HashSpec == HashInit /\ [][HashNext]_vars

\* C16 as stated: the fingerprints of two selections differ if and only if the file lists
\* differ (in their paths or their order) or the bytes read for some file differ; so the
\* fingerprint of one list is the same on every call while no file changes.
FingerprintTracksSelection ==
    (digest["first"].set /\ digest["second"].set) =>
        (digest["first"].hash # digest["second"].hash
            <=> (hashed["first"] # hashed["second"]
                    \/ digest["first"].read # digest["second"].read))


(***************************************************************************)
(* The path matcher: _getFiles and _getRelevantFiles.  A path is the       *)
(* sequence of its characters, a character its UTF-16 code unit, so that   *)
(* toLowerCase, the comparison of strings, indexOf, path.extname and       *)
(* path.relative are computed and not assumed.                             *)
(***************************************************************************)
\* '.' and '/'
Dot == 46
Slash == 47

\* a sequence written as a function, as the tuple it is
AsTuple(f) == SubSeq(f, 1, Len(f))

\* String.prototype.toLowerCase on the letters A to Z
LowerChar(ch) == IF ch >= 65 /\ ch <= 90 THEN ch + 32 ELSE ch

toLowerCase(str) == AsTuple([i \in 1..Len(str) |-> LowerChar(str[i])])

\* a < b on two strings: the order of the code units
StrLess(a, b) ==
    \E i \in 1..Len(b) :
        /\ i <= Len(a) + 1
        /\ SubSeq(a, 1, i - 1) = SubSeq(b, 1, i - 1)
        /\ i = Len(a) + 1 \/ a[i] < b[i]

\* str.indexOf(sub): the first position, counted from 0, or -1
indexOf(str, sub) ==
    LET hits == {i \in 0..(Len(str) - Len(sub)) : SubSeq(str, i + 1, i + Len(sub)) = sub}
    IN  IF hits = {} THEN -1 ELSE CHOOSE i \in hits : \A j \in hits : i <= j

\* str.substr(n)
substr(str, n) == SubSeq(str, n + 1, Len(str))

\* the segments of a path: what lies between one '/' (or an end) and the next
Segments(p) ==
    LET cuts == {0, Len(p) + 1} \cup {i \in 1..Len(p) : p[i] = Slash}
        Cut(k) == CHOOSE i \in cuts : Cardinality({j \in cuts : j < i}) = k
    IN  AsTuple([k \in 1..(Cardinality(cuts) - 1) |-> SubSeq(p, Cut(k - 1) + 1, Cut(k) - 1)])

\* segments joined by '/'
JoinSegments(segs) ==
    LET joined[k \in 0..Len(segs)] ==
            IF k = 0 THEN <<>>
            ELSE IF k = 1 THEN segs[1]
            ELSE joined[k - 1] \o <<Slash>> \o segs[k]
    IN  joined[Len(segs)]

\* path.extname: from the last '.' of the last segment on, when it is not its first character
extname(p) ==
    LET segs == Segments(p)
        base == segs[Len(segs)]
        dots == {i \in 2..Len(base) : base[i] = Dot}
    IN  IF dots = {} THEN <<>>
        ELSE SubSeq(base, CHOOSE i \in dots : \A j \in dots : j <= i, Len(base))

\* path.relative(from, to) for two paths below the same directory: one '..' for each
\* segment of from that to does not share, then the other segments of to
relative(from, to) ==
    LET f == Segments(from)
        t == Segments(to)
        same == {n \in 0..Len(f) : n <= Len(t) /\ SubSeq(f, 1, n) = SubSeq(t, 1, n)}
        n == CHOOSE k \in same : \A j \in same : j <= k
    IN  JoinSegments(AsTuple([i \in 1..(Len(f) - n) |-> <<Dot, Dot>>])
                         \o SubSeq(t, n + 1, Len(t)))

\* path.normalize: '.' and empty segments go, '..' takes the segment before it away (at
\* the root it goes, at the start of a relative path it stays), a '/' at the end stays,
\* and the empty path is '.'
normalize(p) ==
    LET segs == Segments(p)
        absolute == p # <<>> /\ p[1] = Slash
        kept[k \in 0..Len(segs)] ==
            IF k = 0 THEN <<>>
            ELSE LET seg == segs[k]
                     sofar == kept[k - 1]
                 IN  IF seg = <<>> \/ seg = <<Dot>> THEN sofar
                     ELSE IF seg = <<Dot, Dot>>
                     THEN IF sofar # <<>> /\ sofar[Len(sofar)] # <<Dot, Dot>>
                          THEN SubSeq(sofar, 1, Len(sofar) - 1)
                          ELSE IF absolute THEN sofar ELSE Append(sofar, seg)
                     ELSE Append(sofar, seg)
        body == JoinSegments(kept[Len(segs)])
        tail == IF body # <<>> /\ p[Len(p)] = Slash THEN <<Slash>> ELSE <<>>
    IN  IF absolute THEN <<Slash>> \o body \o tail
        ELSE IF body = <<>> THEN <<Dot>>
        ELSE body \o tail

\* path.join(a, b) of two paths that are not empty
join(a, b) == normalize(a \o <<Slash>> \o b)

\* the root of the class: "/r"
Root == <<Slash, 114>>

\* path.resolve(activeRoot, p) for a relative p: the root, then p, normalized, without a
\* '/' at the end
resolve(p) ==
    LET full == normalize(Root \o <<Slash>> \o p)
    IN  IF Len(full) > 1 /\ full[Len(full)] = Slash THEN SubSeq(full, 1, Len(full) - 1)
        ELSE full

\* _stripRoot(file, root)
_stripRoot(file, root) ==
    IF indexOf(file, root) = -1 THEN file
    ELSE LET rest == substr(file, Len(root))
         IN  IF rest # <<>> /\ rest[1] = Slash THEN substr(rest, 1) ELSE rest

\* the directories and the files below the root, in the order a walk of the disk meets
\* them: d/B.j, d/a.j, d/s/a..j, d/s/c.j, d/s/n.k
DirD == <<100>>
DirS == <<100, Slash, 115>>
FileB == <<100, Slash, 66, Dot, 106>>
FileA == <<100, Slash, 97, Dot, 106>>
FileDots == <<100, Slash, 115, Slash, 97, Dot, Dot, 106>>
FileC == <<100, Slash, 115, Slash, 99, Dot, 106>>
FileN == <<100, Slash, 115, Slash, 110, Dot, 107>>
\* a file named from the root as ../o.j, which lies beside the root
FileOut == <<Dot, Dot, Slash, 111, Dot, 106>>

Disk == <<FileB, FileA, FileDots, FileC, FileN>>

\* the configurations of a class: directories (one, two apart, one inside the other),
\* explicit files (inside a directory, with another extension, outside the root), a
\* preference list (a directory, a file written in the other case: D/A.J and D/S/C.J,
\* both), the extensions, and the exclusions (d/s, and D/S in the other case)
Configs ==
    [directories : {<<>>, <<DirD>>, <<DirS>>, <<DirD, DirS>>},
     files       : {<<>>, <<FileA>>, <<FileN>>, <<FileOut>>},
     preference  : {<<>>, <<DirS>>, <<<<68, Slash, 65, Dot, 74>>>>, <<DirS, FileB>>, <<DirD>>,
                    <<<<68, Slash, 83, Slash, 67, Dot, 74>>>>},
     extensions  : {<<>>, <<<<Dot, 106>>>>},
     exclude     : {<<>>, <<DirS>>, <<<<68, Slash, 83>>>>}]

\* the largest number of calls of _getFiles in a row
MaxCalls == 2

\* _getFiles: directories is the root when neither directories nor files are configured;
\* each directory is resolved against the root
Directories(cfg) ==
    IF cfg.directories = <<>> /\ cfg.files = <<>> THEN <<Root>>
    ELSE AsTuple([i \in 1..Len(cfg.directories) |-> resolve(cfg.directories[i])])

\* _getFiles: each explicit file is resolved against the root
SpecificFiles(cfg) == AsTuple([i \in 1..Len(cfg.files) |-> resolve(cfg.files[i])])

Reverse(seq) == AsTuple([i \in 1..Len(seq) |-> seq[Len(seq) + 1 - i]])

\* dir.files(directory): the full paths of the files below the directory, in the order
\* of the walk or in the other order
Listing(directory, order) ==
    LET dirSegs == Segments(directory)
        Below(file) == /\ Len(Segments(file)) > Len(dirSegs)
                       /\ SubSeq(Segments(file), 1, Len(dirSegs)) = dirSegs
        all == SelectSeq(AsTuple([i \in 1..Len(Disk) |-> resolve(Disk[i])]), Below)
    IN  IF order = "walk" THEN all ELSE Reverse(all)

\* _extensionMatch(filePath, extensions)
_extensionMatch(filePath, extensions) ==
    \/ extensions = <<>>
    \/ \E i \in 1..Len(extensions) :
          toLowerCase(extname(toLowerCase(filePath))) = toLowerCase(extensions[i])

\* _preference(preferences, fileName): the index of the first entry the file matches,
\* counted from 0, or the length of the list
_preference(preferences, fileName) ==
    LET name == toLowerCase(fileName)
        Matches(i) ==
            LET currPreference == toLowerCase(preferences[i])
            IN  IF extname(currPreference) # <<>>
                THEN currPreference = name
                ELSE indexOf(relative(currPreference, name), <<Dot, Dot>>) = -1
        hits == {i \in 1..Len(preferences) : Matches(i)}
    IN  IF hits = {} THEN Len(preferences)
        ELSE (CHOOSE i \in hits : \A j \in hits : i <= j) - 1

\* a comparison that breaks ties on the lower-cased paths
sortCompareCaseless(preferenceDiff, a, b) ==
    IF preferenceDiff # 0 THEN preferenceDiff
    ELSE IF StrLess(toLowerCase(a), toLowerCase(b)) THEN -1
    ELSE IF StrLess(toLowerCase(b), toLowerCase(a)) THEN 1 ELSE 0

\* the function handed to files.sort, given the difference of the two ranks:
\* preferenceDiff !== 0 ? preferenceDiff : a < b ? -1 : a > b ? 1 : 0
sortCompare(preferenceDiff, a, b) ==
    IF preferenceDiff # 0 THEN preferenceDiff
    ELSE IF StrLess(a, b) THEN -1
    ELSE IF StrLess(b, a) THEN 1 ELSE 0

\* a list left in the order it was gathered in
Unsorted(list, preference) == list

\* files.sort(function(a, b) {...}): each entry comes behind the entries the comparison
\* puts before it, and behind the entries it ties with that stood before it
Sort(list, preference) ==
    LET at == 1..Len(list)
        ranks == AsTuple([i \in at |-> _preference(preference, list[i])])
        Ahead(j, i) ==
            LET compared == sortCompare(ranks[j] - ranks[i], list[j], list[i])
            IN  compared < 0 \/ (compared = 0 /\ j < i)
        place == AsTuple([i \in at |-> Cardinality({j \in at : Ahead(j, i)}) + 1])
    IN  AsTuple([k \in at |-> list[CHOOSE i \in at : place[i] = k]])

\* the preference list the sort uses: preference, then the explicit files
SortPreference(cfg) ==
    cfg.preference
        \o AsTuple([i \in 1..Len(cfg.files) |-> _stripRoot(SpecificFiles(cfg)[i], Root)])

\* an exclusion that is compared with the path as written
ExcludedAsWritten(file, exclusions) ==
    \E i \in 1..Len(exclusions) : indexOf(file, exclusions[i]) = 0

\* excluded: some exclusion begins the file's path, letter case apart
Excluded(file, exclusions) ==
    \E i \in 1..Len(exclusions) : indexOf(toLowerCase(file), toLowerCase(exclusions[i])) = 0

\* included: the file's path is an entry of "preference", letter case apart
Included(file, preference) ==
    \E i \in 1..Len(preference) : toLowerCase(file) = toLowerCase(preference[i])

\* a filter in which an exclusion also removes a preferred file
IncludeUnlessExcluded(included, extensionMatch, excluded) ==
    (included \/ extensionMatch) /\ ~excluded

\* include: a preferred file is kept; another file is kept when its extension matches
\* and it is not excluded
Include(included, extensionMatch, excluded) ==
    IF included THEN TRUE
    ELSE IF extensionMatch THEN ~excluded
    ELSE FALSE

\* the process task of _getRelevantFiles: strip the root, filter, sort
ProcessFiles(cfg, files) ==
    LET stripped == AsTuple([i \in 1..Len(files) |-> _stripRoot(files[i], Root)])
        Keep(file) == Include(Included(file, cfg.preference),
                              _extensionMatch(file, cfg.extensions),
                              Excluded(file, cfg.exclude))
    IN  Sort(SelectSeq(stripped, Keep), SortPreference(cfg))

\* what the map of normalizeFullPathIfNeeded gives for a path that begins with '/'
undefined == <<-1>>

\* the task normalizeFullPathIfNeeded of _getFiles: each path that does not begin with
\* '/' is joined to the root; the function of the map returns nothing for the others
normalizeFullPathIfNeeded(asked, files) ==
    IF ~asked THEN files
    ELSE AsTuple([i \in 1..Len(files) |->
                    IF files[i] = <<>> \/ files[i][1] # Slash THEN join(Root, files[i])
                    ELSE undefined])

SelectInit ==
    /\ config \in Configs
    /\ calls = 0
    /\ spc = "idle"
    /\ pending = {}
    /\ gathered = <<>>
    /\ selection = <<>>
    /\ earlier = NoEarlier
    /\ normalizedFullPath = FALSE
    /\ normalized = <<>>
    /\ bytes = [f \in FileIds |-> <<f>>]
    /\ HashIdle
    /\ PipelineIdle
    /\ CssIdle
    /\ LocalIdle
    /\ ImportIdle
    /\ FileIdle

\* _getFiles(config, activeRoot, callback): files starts as the explicit files and every
\* directory's listing is asked for at once
GetFiles ==
    /\ spc \in {"idle", "done"}
    /\ calls < MaxCalls
    /\ calls' = calls + 1
    /\ spc' = "listing"
    /\ earlier' = [gathered |-> gathered, selection |-> selection]
    /\ gathered' = SpecificFiles(config)
    /\ pending' = 1..Len(Directories(config))
    /\ selection' = <<>>
    /\ normalizedFullPath' \in BOOLEAN
    /\ normalized' = <<>>
    /\ UNCHANGED <<impVars, fileVars, pipeVars, cssVars, locVars, bytes, hashVars, config>>

\* the callback of dir.files for one directory: files = files.concat(dirFiles); an error
\* ends the call
DirListed(i) ==
    /\ spc = "listing"
    /\ i \in pending
    /\ \E order \in {"walk", "back", "error"} :
          IF order = "error"
          THEN /\ spc' = "failed"
               /\ UNCHANGED <<gathered, pending>>
          ELSE /\ gathered' = gathered \o Listing(Directories(config)[i], order)
               /\ pending' = pending \ {i}
               /\ UNCHANGED spc
    /\ UNCHANGED <<impVars, fileVars, pipeVars, cssVars, locVars, bytes, hashVars, config, calls, selection, earlier,
                   normalizedFullPath, normalized>>

\* every listing is there: the process task, then normalizeFullPathIfNeeded, then
\* callback(null, files)
Process ==
    /\ spc = "listing"
    /\ pending = {}
    /\ selection' = ProcessFiles(config, gathered)
    /\ normalized' = normalizeFullPathIfNeeded(normalizedFullPath, selection')
    /\ spc' = "done"
    /\ UNCHANGED <<impVars, fileVars, pipeVars, cssVars, locVars, bytes, hashVars, config, calls, pending, gathered, earlier,
                   normalizedFullPath>>

SelectNext ==
    \/ GetFiles
    \/ \E i \in 1..2 : DirListed(i)
    \/ Process

SelectSpec == SelectInit /\ [][SelectNext]_vars


(***************************************************************************)
(* Properties of the file selection.                                       *)
(***************************************************************************)
\* the rank the sort gave a selected file
RankOf(file) == _preference(SortPreference(config), file)

\* C17: on a fixed disk and configuration, a call of _getFiles calls back with the same
\* ordered list as the call before it, in whatever order the listings of the directories
\* called back.
SelectionDeterministic ==
    (spc = "done" /\ calls >= 2) => selection = earlier.selection

\* a second call is done whose two listings were gathered in another order than in the
\* first call
SelectionDeterministicWitness ==
    /\ spc = "done"
    /\ calls = 2
    /\ Len(config.directories) = 2
    /\ gathered # earlier.gathered
    /\ Len(selection) >= 3

\* C18 as stated: no path is twice in a selection.
NoPathTwice ==
    spc = "done" =>
        \A i, j \in 1..Len(selection) : i # j => selection[i] # selection[j]

\* directory containment: the segments of the directory begin the segments of the file,
\* letter case apart
ContainedIn(directory, file) ==
    LET d == Segments(toLowerCase(directory))
        f == Segments(toLowerCase(file))
    IN  Len(d) <= Len(f) /\ SubSeq(f, 1, Len(d)) = d

\* the rank as C19 states it: the index of the first entry of preference, then files,
\* that the file matches, or the length of that list
StatedRank(file) ==
    LET entries == config.preference \o config.files
        Matches(i) ==
            IF extname(entries[i]) # <<>>
            THEN toLowerCase(entries[i]) = toLowerCase(file)
            ELSE ContainedIn(entries[i], file)
        hits == {i \in 1..Len(entries) : Matches(i)}
    IN  IF hits = {} THEN Len(entries)
        ELSE (CHOOSE i \in hits : \A j \in hits : i <= j) - 1

\* C19 as stated: the selected files are in the order of their ranks, the rank of a file
\* being the index of the first entry it matches (the same path, letter case apart, for an
\* entry with an extension; containment in the directory otherwise) and the length of the
\* list for a file that matches no entry.
OrderedByStatedRank ==
    spc = "done" =>
        \A i, j \in 1..Len(selection) :
            i < j => StatedRank(selection[i]) <= StatedRank(selection[j])

BeginsWith(file, prefix) ==
    /\ Len(prefix) <= Len(file)
    /\ toLowerCase(SubSeq(file, 1, Len(prefix))) = toLowerCase(prefix)

\* the path is an entry of the list, letter case apart
NamedIn(file, entries) ==
    \E i \in 1..Len(entries) : toLowerCase(entries[i]) = toLowerCase(file)

\* the files that were found, relative to the root
Found == {_stripRoot(gathered[i], Root) : i \in 1..Len(gathered)}

\* C21: a selected file whose path begins with an exclusion, letter case apart, is named
\* in "preference" or in "files": no file that was only discovered below an exclusion is
\* in the selection.
ExcludedNeverSelected ==
    spc = "done" =>
        \A i \in 1..Len(selection) :
            (\E e \in 1..Len(config.exclude) : BeginsWith(selection[i], config.exclude[e]))
                => NamedIn(selection[i], config.preference \o config.files)

\* the exclusion is written D/S, d/s/c.j was found and is not named, and the selection
\* holds other files but not d/s/c.j
ExcludedNeverSelectedWitness ==
    /\ spc = "done"
    /\ config.exclude = <<<<68, Slash, 83>>>>
    /\ FileC \in Found
    /\ ~NamedIn(FileC, config.preference \o config.files)
    /\ selection # <<>>
    /\ \A i \in 1..Len(selection) : selection[i] # FileC

\* C22: a file that was found and whose path is an entry of "preference", letter case
\* apart, is in the selection, also when its path begins with an exclusion.
PreferredBeatsExclusion ==
    spc = "done" =>
        \A file \in Found :
            NamedIn(file, config.preference) =>
                \E i \in 1..Len(selection) : selection[i] = file

\* d/s/c.j is preferred as D/S/C.J, d/s is excluded, and d/s/c.j is selected
PreferredBeatsExclusionWitness ==
    /\ spc = "done"
    /\ config.preference = <<<<68, Slash, 83, Slash, 67, Dot, 74>>>>
    /\ config.exclude = <<DirS>>
    /\ \E i \in 1..Len(selection) : selection[i] = FileC

\* C23 as stated: a file of the disk that is listed in "files" and lies below no
\* exclusion is in the selection, whatever its extension.
ListedFilesSelected ==
    spc = "done" =>
        \A k \in 1..Len(config.files) :
            (/\ \E d \in 1..Len(Disk) : Disk[d] = config.files[k]
             /\ ~\E e \in 1..Len(config.exclude) : BeginsWith(config.files[k], config.exclude[e]))
                => \E i \in 1..Len(selection) : selection[i] = config.files[k]

\* C24 as stated: when full paths are asked for, _getFiles calls back with one absolute
\* path for each selected file, none of them missing: the path itself when it is outside
\* the root, the root joined with it otherwise.
FullPathsAllAbsolute ==
    (spc = "done" /\ normalizedFullPath) =>
        /\ Len(normalized) = Len(selection)
        /\ \A i \in 1..Len(normalized) :
              /\ normalized[i] # undefined
              /\ normalized[i][1] = Slash
              /\ normalized[i] = IF selection[i][1] = Slash THEN selection[i]
                                 ELSE Root \o <<Slash>> \o selection[i]


(***************************************************************************)
(* The CSS bundle: the cleanCss task of processCss and _rebaseUrls.  A CSS *)
(* text is the sequence of its characters, as a path is; a position in a   *)
(* text is counted from 0, as in the code.                                 *)
(***************************************************************************)
\* ) , \ and the space and the line feed
ParenClose == 41
Comma == 44
Backslash == 92
Space == 32
LineFeed == 10

\* the quotes a url() can be written in: ' and "
Quotes == {39, 34}

\* "url(", "//", "http://", "https://", "data:", ";base64"
UrlOpen == <<117, 114, 108, 40>>
TwoSlashes == <<Slash, Slash>>
Http == <<104, 116, 116, 112, 58>>
Https == <<104, 116, 116, 112, 115, 58>>
Data == <<100, 97, 116, 97, 58>>
Base64 == <<59, 98, 97, 115, 101, 54, 52>>

\* the references of the model, as they stand between "url(" and ")":
\* /a/b, '/a/b', /a/../b, //h/c, http://h/c, HTTPS://h/c, data:i;base64,AA and
\* ../images/logo.png
RefPlain == <<47, 97, 47, 98>>
RefQuoted == <<39, 47, 97, 47, 98, 39>>
RefDotted == <<47, 97, 47, 46, 46, 47, 98>>
RefProtocol == <<47, 47, 104, 47, 99>>
RefHttp == <<104, 116, 116, 112, 58, 47, 47, 104, 47, 99>>
RefHttps == <<72, 84, 84, 80, 83, 58, 47, 47, 104, 47, 99>>
RefData == <<100, 97, 116, 97, 58, 105, 59, 98, 97, 115, 101, 54, 52, 44, 65, 65>>
RefRelative == <<46, 46, 47, 105, 109, 97, 103, 101, 115, 47, 108, 111, 103, 111, 46, 112, 110, 103>>

Refs == {RefPlain, RefQuoted, RefDotted, RefProtocol, RefHttp, RefHttps, RefData, RefRelative}

\* what CleanCss returned for a file: "b:", then one or two url() with nothing or a
\* comma between them
Sheets ==
    [refs : {<<r>> : r \in Refs} \cup {<<r, q>> : r, q \in Refs}, sep : {<<>>, <<Comma>>}]

\* the files of a bundle: none, one file, or two files with one url() each
SheetLists ==
    {<<>>} \cup {<<s>> : s \in {t \in Sheets : Len(t.refs) = 2 \/ t.sep = <<>>}}
           \cup {<<s, t>> : s, t \in {u \in Sheets : Len(u.refs) = 1 /\ u.sep = <<>>}}

\* "b:" and "url(" ref ")"
Property == <<98, 58>>
UrlOf(ref) == UrlOpen \o ref \o <<ParenClose>>

\* ''+fs.readFileSync(file), minified by CleanCss: the text of a sheet
TextOf(sheet) ==
    Property \o UrlOf(sheet.refs[1])
        \o (IF Len(sheet.refs) = 2 THEN sheet.sep \o UrlOf(sheet.refs[2]) ELSE <<>>)

StartsWith(str, prefix) ==
    Len(prefix) <= Len(str) /\ SubSeq(str, 1, Len(prefix)) = prefix

NoMatch == [found |-> FALSE, index |-> 0, all |-> <<>>, url |-> <<>>]

\* urlRegex = /url\((['"]?([^'"\)]+)['"]?)\)/ig tried at position i: "url(", a quote or
\* none, one or more characters that are no quote and no ')', a quote or none, ')'
MatchAt(css, i) ==
    LET opened == i + 4 <= Len(css) /\ toLowerCase(SubSeq(css, i + 1, i + 4)) = UrlOpen
        first == IF i + 5 <= Len(css) /\ css[i + 5] \in Quotes THEN i + 6 ELSE i + 5
        stops == {n \in first..Len(css) : css[n] \in Quotes \cup {ParenClose}}
        stop == IF stops = {} THEN Len(css) + 1
                ELSE CHOOSE n \in stops : \A m \in stops : n <= m
        close == IF stop <= Len(css) /\ css[stop] \in Quotes THEN stop + 1 ELSE stop
    IN  IF opened /\ stop > first /\ close <= Len(css) /\ css[close] = ParenClose
        THEN [found |-> TRUE,
              index |-> i,
              all   |-> SubSeq(css, i + 1, close),
              url   |-> SubSeq(css, i + 5, close - 1)]
        ELSE NoMatch

\* urlRegex.exec(css) with urlRegex.lastIndex = from: the first match at or behind from,
\* or null
exec(css, from) ==
    LET hits == {i \in from..(Len(css) - 1) : MatchAt(css, i).found}
    IN  IF hits = {} THEN NoMatch
        ELSE MatchAt(css, CHOOSE i \in hits : \A j \in hits : i <= j)

\* url.replace(/^['"]/, '').replace(/['"]$/, '')
StripQuotes(href) ==
    LET front == IF href # <<>> /\ href[1] \in Quotes THEN Tail(href) ELSE href
    IN  IF front # <<>> /\ front[Len(front)] \in Quotes
        THEN SubSeq(front, 1, Len(front) - 1) ELSE front

\* a test for an external url that asks for the scheme
externalHttpRegexSchemeOnly(href) ==
    \/ StartsWith(toLowerCase(href), Http \o TwoSlashes)
    \/ StartsWith(toLowerCase(href), Https \o TwoSlashes)

\* externalHttpRegex = /^(http(s)?:)?\/\//i
externalHttpRegex(href) ==
    \/ StartsWith(toLowerCase(href), TwoSlashes)
    \/ StartsWith(toLowerCase(href), Http \o TwoSlashes)
    \/ StartsWith(toLowerCase(href), Https \o TwoSlashes)

\* base64Regex = /^data:.+;base64/i
base64Regex(href) ==
    /\ StartsWith(toLowerCase(href), Data)
    /\ \E n \in (Len(Data) + 2)..Len(href) :
          /\ SubSeq(toLowerCase(href), n, n + Len(Base64) - 1) = Base64
          /\ \A m \in (Len(Data) + 1)..(n - 1) : href[m] # LineFeed

\* absoluteUrlRegex = /^[\/\\][^\/]/
absoluteUrlRegex(href) ==
    Len(href) >= 2 /\ href[1] \in {Slash, Backslash} /\ href[2] # Slash

\* the body of the loop of _rebaseUrls for one match: the text and the lastIndex it leaves.
\* An external url and a base64 url are left alone and the regex goes on behind the match.
\* An absolute url is replaced by its normalized form.  A relative url throws: cssRoot,
\* the argument of replace, is declared nowhere (a ReferenceError).  After a splice the
\* regex goes on at endIndex, the end of the url in the text before the splice.
Rebase(css, match) ==
    LET startIndex == match.index + indexOf(match.all, match.url)
        endIndex == startIndex + Len(match.url)
        href == StripQuotes(match.url)
        normalizedUrl == normalize(href)
    IN  IF externalHttpRegex(href) \/ base64Regex(href)
        THEN [threw |-> FALSE, css |-> css, lastIndex |-> match.index + Len(match.all)]
        ELSE IF absoluteUrlRegex(normalizedUrl)
        THEN [threw |-> FALSE,
              css |-> SubSeq(css, 1, startIndex) \o normalizedUrl \o substr(css, endIndex),
              lastIndex |-> endIndex]
        ELSE [threw |-> TRUE, css |-> css, lastIndex |-> match.index + Len(match.all)]

\* a bundle that puts each file in front of the files before it
FoldInFront(css, text) == text \o <<Space, LineFeed>> \o css

\* css += currCss+' \n'
Fold(css, text) == css \o text \o <<Space, LineFeed>>

CssInit ==
    /\ sheets \in SheetLists
    /\ cst = "idle"
    /\ fileAt = 0
    /\ currCss = <<>>
    /\ lastIndex = 0
    /\ bundle = <<>>
    /\ outs = <<>>
    /\ bytes = [f \in FileIds |-> <<f>>]
    /\ PipelineIdle
    /\ HashIdle
    /\ SelectIdle
    /\ LocalIdle
    /\ ImportIdle
    /\ FileIdle

\* the task cleanCss of processCss: css = '', then async.eachSeries reads and minifies
\* the first file and calls _rebaseUrls; with no file it calls back at once
CleanCss ==
    /\ cst = "idle"
    /\ bundle' = <<>>
    /\ IF sheets = <<>>
       THEN /\ cst' = "bundled"
            /\ UNCHANGED <<fileAt, currCss>>
       ELSE /\ cst' = "scanning"
            /\ fileAt' = 1
            /\ currCss' = TextOf(sheets[1])
    /\ lastIndex' = 0
    /\ UNCHANGED <<impVars, fileVars, pipeVars, locVars, bytes, hashVars, selVars, sheets, outs>>

\* one turn of the loop of _rebaseUrls: urlRegex.exec(css) found a match
Exec ==
    /\ cst = "scanning"
    /\ exec(currCss, lastIndex).found
    /\ LET rebased == Rebase(currCss, exec(currCss, lastIndex))
       IN  /\ cst' = IF rebased.threw THEN "threw" ELSE "scanning"
           /\ currCss' = rebased.css
           /\ lastIndex' = rebased.lastIndex
    /\ UNCHANGED <<impVars, fileVars, pipeVars, locVars, bytes, hashVars, selVars, sheets, fileAt, bundle, outs>>

\* urlRegex.exec(css) is null: _rebaseUrls returns, css += currCss+' \n', and eachSeries
\* goes on to the next file or calls back
Rebased ==
    /\ cst = "scanning"
    /\ ~exec(currCss, lastIndex).found
    /\ bundle' = Fold(bundle, currCss)
    /\ outs' = Append(outs, currCss)
    /\ IF fileAt < Len(sheets)
       THEN /\ fileAt' = fileAt + 1
            /\ currCss' = TextOf(sheets[fileAt + 1])
            /\ UNCHANGED cst
       ELSE /\ cst' = "bundled"
            /\ UNCHANGED <<fileAt, currCss>>
    /\ lastIndex' = 0
    /\ UNCHANGED <<impVars, fileVars, pipeVars, locVars, bytes, hashVars, selVars, sheets>>

CssNext ==
    \/ CleanCss
    \/ Exec
    \/ Rebased

CssSpec == CssInit /\ [][CssNext]_vars


(***************************************************************************)
(* Properties of the CSS bundle.                                           *)
(***************************************************************************)
\* the references that are external or base64
ExternalRefs == {RefProtocol, RefHttp, RefHttps, RefData}

\* "b:url(/images/logo.png)"
LogoRebased == Property \o UrlOf(<<47, 105, 109, 97, 103, 101, 115, 47, 108, 111, 103, 111, 46, 112, 110, 103>>)

\* C25 as stated: the rebase of url(../images/logo.png) in /proj/stylesheets/style.css
\* with the css root /proj completes without an error and gives url(/images/logo.png).
RelativeUrlRebased ==
    (Len(sheets) = 1 /\ sheets[1].refs = <<RefRelative>>) =>
        /\ cst # "threw"
        /\ cst = "bundled" => outs = <<LogoRebased>>

\* C26: a text whose references are all external or base64 comes out of the rebase as it
\* went in, and in any text that was rebased each such url() still stands as it was
\* written.
ExternalUrlsUntouched ==
    cst = "bundled" =>
        \A k \in 1..Len(sheets) :
            /\ (\A r \in 1..Len(sheets[k].refs) : sheets[k].refs[r] \in ExternalRefs)
                  => outs[k] = TextOf(sheets[k])
            /\ \A r \in 1..Len(sheets[k].refs) :
                  sheets[k].refs[r] \in ExternalRefs
                      => indexOf(outs[k], UrlOf(sheets[k].refs[r])) # -1

\* a file with url(//h/c) and url(data:i;base64,AA) was bundled
ExternalUrlsUntouchedWitness ==
    /\ cst = "bundled"
    /\ Len(sheets) = 1
    /\ sheets[1].refs = <<RefProtocol, RefData>>
    /\ outs = <<TextOf(sheets[1])>>

\* a reference rewritten once: left alone when it is external or base64, and its
\* normalized form without quotes otherwise
RewrittenOnce(ref) ==
    IF ref \in ExternalRefs THEN ref ELSE normalize(StripQuotes(ref))

\* the text of a sheet with each reference rewritten once
RewrittenText(sheet) ==
    Property \o UrlOf(RewrittenOnce(sheet.refs[1]))
        \o (IF Len(sheet.refs) = 2 THEN sheet.sep \o UrlOf(RewrittenOnce(sheet.refs[2]))
            ELSE <<>>)

\* C27 as stated: when the rebase of a text returns, every url() that is not external was
\* rewritten exactly once and none was skipped, whether the replacement is shorter than
\* the reference or not and also when two url() stand side by side.
EveryUrlRewrittenOnce ==
    cst = "bundled" =>
        \A k \in 1..Len(sheets) : outs[k] = RewrittenText(sheets[k])

\* C29: the bundle is what the rebase returned for each file, each followed by ' \n', in
\* the order of the selection.
BundleInSelectionOrder ==
    /\ Len(outs) <= Len(sheets)
    /\ cst = "bundled" =>
          /\ Len(outs) = Len(sheets)
          /\ bundle = IF Len(outs) = 0 THEN <<>>
                   ELSE IF Len(outs) = 1 THEN outs[1] \o <<Space, LineFeed>>
                   ELSE outs[1] \o <<Space, LineFeed>> \o outs[2] \o <<Space, LineFeed>>
          /\ \A k \in 1..Len(outs) : StartsWith(outs[k], Property)

\* two files with different texts were bundled
BundleInSelectionOrderWitness ==
    /\ cst = "bundled"
    /\ Len(sheets) = 2
    /\ outs[1] # outs[2]
    /\ outs[1] = TextOf(sheets[1])
    /\ outs[2] = TextOf(sheets[2])

\* the bundle the task cleanCss makes of files whose texts are read, when the texts hold
\* no url() and are texts that CleanCss returns as they are: each text, then ' \n'
BundleOf(read) ==
    LET folded[k \in 0..Len(read)] ==
            IF k = 0 THEN <<>> ELSE Fold(folded[k - 1], read[k])
    IN  folded[Len(read)]

\* _getCssPath(files) as a call of _hashFiles left it: 'css' + '/' + hash + '.css'
CssPathOf(h) == [dir |-> "css", name |-> digest[h].hash, ext |-> ".css"]

\* C28 as stated: the key of the CSS target reflects the rebased bundle: two CSS
\* selections whose bundles differ never have the same target key.
KeyReflectsRebasedBundle ==
    (digest["first"].set /\ digest["second"].set) =>
        (BundleOf(digest["first"].read) # BundleOf(digest["second"].read)
            => CssPathOf("first") # CssPathOf("second"))


(***************************************************************************)
(* processAssets: saveJavaScriptToFile and saveCssToFile build the bundles *)
(* and write them below the local roots.                                   *)
(***************************************************************************)
\* relativeUrl = '/' + getPath
RelativeUrl(k) ==
    [dir |-> IF k.dir = "js" THEN "/js" ELSE "/css", name |-> k.name, ext |-> k.ext]

\* processAssets(callback): the tasks processJs and processCss start
ProcessAssets ==
    /\ pa = "idle"
    /\ pa' = "running"
    /\ saved' = [c \in Bundled |-> [NoSaved EXCEPT !.state = "run"]]
    /\ UNCHANGED <<impVars, fileVars, pipeVars, bytes, hashVars, selVars, cssVars, localFiles, paResult>>

\* _.extend({}, results.processJs, results.processCss, {imagesUrl: ''}, {extrasUrl: ''})
Extend(err, tasks) ==
    [err |-> err, jsUrl |-> tasks["js"].url, cssUrl |-> tasks["css"].url,
     imagesUrl |-> NoKey, extrasUrl |-> NoKey]

\* a save that asks the bucket first and builds nothing when the key is there
SaveViaCdn(c) ==
    /\ pa = "running"
    /\ saved[c].state = "run"
    /\ exists' = [exists EXCEPT ![c] = fileExists(TargetPath(c, fsFiles[c]))]
    /\ saved' = [saved EXCEPT ![c] = [state |-> "done",
                                      url |-> RelativeUrl(TargetPath(c, fsFiles[c]))]]
    /\ localFiles' = IF TargetPath(c, fsFiles[c]) \in storage THEN localFiles
                     ELSE localFiles \cup {TargetPath(c, fsFiles[c])}
    /\ UNCHANGED <<forceCdnUpdate, fsFiles, storage, before, call, callErr, prevOk, prevUrl, pc,
                   path, url, result, up, idx, wrapped, put, log, issued, cb, pa, paResult>>
    /\ UNCHANGED <<impVars, fileVars, bytes, hashVars, selVars, cssVars>>

\* saveJavaScriptToFile, saveCssToFile: getSource (processJavaScript, processCss), then
\* saveFile.  The minify and the cleanCss task emit minifyStarted before they do anything
\* else; no task of this path emits minifyEnded.
\* With no file there is no source, nothing is written and the url is ''.
\* uglifyjs can fail, which ends processAssets with the error while the other task goes
\* on; _rebaseUrls can throw.  Otherwise the bundle is written to root + '/' + getPath and
\* the url is '/' + getPath.
SaveToFile(c) ==
    /\ pa \in {"running", "returned"}
    /\ saved[c].state = "run"
    /\ log' = Append(log, MinifyEvent("minifyStarted", c, fsFiles[c]))
    /\ \E outcome \in {"ok", "err", "throw"} :
          /\ outcome = "err" => (c = "js" /\ fsFiles[c] # <<>>)
          /\ outcome = "throw" => (c = "css" /\ fsFiles[c] # <<>>)
          /\ CASE outcome = "ok" ->
                    /\ saved' = [saved EXCEPT ![c] =
                                    [state |-> "done",
                                     url |-> IF fsFiles[c] = <<>> THEN NoKey
                                             ELSE RelativeUrl(TargetPath(c, fsFiles[c]))]]
                    /\ localFiles' = IF fsFiles[c] = <<>> THEN localFiles
                                     ELSE localFiles \cup {TargetPath(c, fsFiles[c])}
                    /\ UNCHANGED <<pa, paResult>>
               [] outcome = "err" ->
                    /\ saved' = [saved EXCEPT ![c] = [state |-> "failed", url |-> UndefinedUrl]]
                    /\ IF pa = "running"
                       THEN /\ pa' = "returned"
                            /\ paResult' = Extend(TRUE, saved')
                       ELSE UNCHANGED <<pa, paResult>>
                    /\ UNCHANGED localFiles
               [] outcome = "throw" ->
                    /\ pa' = "crashed"
                    /\ UNCHANGED <<saved, localFiles, paResult>>
    /\ UNCHANGED <<forceCdnUpdate, fsFiles, storage, before, call, callErr, prevOk, prevUrl, pc,
                   path, exists, url, result, up, idx, wrapped, put, issued, cb>>
    /\ UNCHANGED <<impVars, fileVars, bytes, hashVars, selVars, cssVars>>

\* both tasks are done: callback(err, result)
ProcessAssetsReturn ==
    /\ pa = "running"
    /\ \A c \in Bundled : saved[c].state = "done"
    /\ pa' = "returned"
    /\ paResult' = Extend(FALSE, saved)
    /\ UNCHANGED <<impVars, fileVars, pipeVars, bytes, hashVars, selVars, cssVars, saved, localFiles>>

LocalNext ==
    \/ ProcessAssets
    \/ \E c \in Bundled : SaveToFile(c)
    \/ ProcessAssetsReturn

LocalSpec == Init /\ [][LocalNext]_vars

\* C30: processAssets makes no existence probe and no put, whatever the bucket holds; a
\* bundle that has files and was built is written below the local root also when its key
\* is in the bucket; and the call reports '' for imagesUrl and for extrasUrl.
ProcessAssetsIsLocal ==
    /\ storage = before
    /\ issued = {}
    /\ \A c \in Classes : exists[c] = "unknown"
    /\ \A s \in Slots : put[s].state = "off"
    /\ \A c \in Bundled :
          (saved[c].state = "done" /\ fsFiles[c] # <<>>)
              => TargetPath(c, fsFiles[c]) \in localFiles
    /\ pa = "returned" =>
          /\ paResult.imagesUrl = NoKey
          /\ paResult.extrasUrl = NoKey
          /\ ~paResult.err =>
                \A c \in Bundled :
                    (IF c = "js" THEN paResult.jsUrl ELSE paResult.cssUrl)
                        = IF fsFiles[c] = <<>> THEN NoKey
                          ELSE RelativeUrl(TargetPath(c, fsFiles[c]))

\* processAssets returned without an error; the bucket holds the keys of both bundles and
\* both were written locally all the same
ProcessAssetsIsLocalWitness ==
    /\ pa = "returned"
    /\ ~paResult.err
    /\ \A c \in Bundled :
          /\ fsFiles[c] # <<>>
          /\ TargetPath(c, fsFiles[c]) \in storage
          /\ TargetPath(c, fsFiles[c]) \in localFiles

(***************************************************************************)
(* Properties of the minify events.                                        *)
(***************************************************************************)
\* the bundling step of a call is over and the call called back without an error
BundlingSucceeded == ReturnedOk \/ (pa = "returned" /\ ~paResult.err)

\* C31 as stated: once the bundling succeeded, on the ensureAssets path and on the
\* processAssets path, with files and with an empty file list, every minifyStarted event
\* is followed by a minifyEnded event of the same type that carries the same file list.
MinifyStartedThenEnded ==
    BundlingSucceeded =>
        \A i \in 1..Len(log) :
            log[i].name = "minifyStarted" =>
                \E j \in (i + 1)..Len(log) :
                    /\ log[j].name = "minifyEnded"
                    /\ log[j].type = log[i].type
                    /\ log[j].files = log[i].files

\* uglifyjs.minify threw in this call: the JavaScript failed after its probe was answered
\* and before a task of uploadJavaScriptToCdn other than getSource started
MinifierFailed == pc["js"] = "failed" /\ exists["js"] # "unknown" /\ up["js"] = NoUp

\* C32: when the JavaScript minifier fails, ensureAssets calls back with the minifier's
\* error, and neither the JavaScript bundle nor its source map is put: no put was made for
\* either key, no put is at work and the bucket holds the keys it held before the call.
MinifierFailureIsFatal ==
    MinifierFailed =>
        /\ call = "returned"
        /\ callErr.kind = "minify"
        /\ result["js"].url = NoUrl
        /\ issued = {}
        /\ \A s \in Slots : put[s].state = "off"
        /\ storage = before

\* the minifier failed in a forced call whose JavaScript target existed
MinifierFailureIsFatalWitness ==
    /\ MinifierFailed
    /\ forceCdnUpdate
    /\ Target("js") \in before
    /\ log[Len(log)] = MinifyEvent("minifyStarted", "js", fsFiles["js"])


(***************************************************************************)
(* importLatestStylesheets: async.eachSeries over the configured sources,  *)
(* _importFromGit and _applyImportMappings for each.  A url is the         *)
(* sequence of its parts between slashes.                                  *)
(***************************************************************************)
\* the largest number of configured sources
MaxSources == 3

\* https://github.com/org/repo/blob/master/a.css
BlobUrl == <<"https:", "", "github.com", "org", "repo", "blob", "master", "a.css">>
\* http://api.github.com/repos/org/repo/contents/b.css
ApiUrl == <<"http:", "", "api.github.com", "repos", "org", "repo", "contents", "b.css">>
\* https://github.com/org/repo/tree/master/c.css
TreeUrl == <<"https:", "", "github.com", "org", "repo", "tree", "master", "c.css">>

SourceUrls == {BlobUrl, ApiUrl, TreeUrl}

SourceLists == UNION {[1..n -> SourceUrls] : n \in 0..MaxSources}

\* what a call that threw returns
Thrown == <<>>

\* /^https?:\/\/github\.com\/([^\/]+)\/([^\/]+)\/blob\/[^\/]+\/(.*)$/
gitHubBlobUrlRegex(sourceUrl) ==
    /\ Len(sourceUrl) >= 8
    /\ sourceUrl[1] \in {"http:", "https:"}
    /\ sourceUrl[2] = ""
    /\ sourceUrl[3] = "github.com"
    /\ sourceUrl[4] # ""
    /\ sourceUrl[5] # ""
    /\ sourceUrl[6] = "blob"
    /\ sourceUrl[7] # ""

\* /^https?:\/\/api\.github\.com\/repos\//
gitHubApiUrlRegex(sourceUrl) ==
    /\ Len(sourceUrl) >= 5
    /\ sourceUrl[1] \in {"http:", "https:"}
    /\ sourceUrl[2] = ""
    /\ sourceUrl[3] = "api.github.com"
    /\ sourceUrl[4] = "repos"

\* _toGitHubApiSource: a blob url becomes
\* 'https://api.github.com/repos/' + org + '/' + repo + '/contents/' + path; a url that
\* then is no api url throws
_toGitHubApiSource(sourceUrl) ==
    LET api == IF gitHubBlobUrlRegex(sourceUrl)
               THEN <<"https:", "", "api.github.com", "repos", sourceUrl[4], sourceUrl[5],
                      "contents">> \o SubSeq(sourceUrl, 8, Len(sourceUrl))
               ELSE sourceUrl
    IN  IF gitHubApiUrlRegex(api) THEN api ELSE Thrown

ImportInit ==
    /\ sources \in SourceLists
    /\ imp = "idle"
    /\ srcAt = 0
    /\ numImported = 0
    /\ fetched = <<>>
    /\ imported = NoImported
    /\ bytes = [f \in FileIds |-> <<f>>]
    /\ PipelineIdle
    /\ HashIdle
    /\ SelectIdle
    /\ CssIdle
    /\ LocalIdle
    /\ FileIdle

\* callback(err, numImported)
ImportCallback(err, n) ==
    /\ imp' = "returned"
    /\ imported' = [called |-> TRUE, err |-> err, numImported |-> n]

\* the iterator of async.eachSeries on the source numbered k: _importFromGit translates
\* the url, which can throw, and requests it
ImportFromGit(k) ==
    /\ srcAt' = k
    /\ IF _toGitHubApiSource(sources[k]) = Thrown
       THEN /\ imp' = "threw"
            /\ UNCHANGED fetched
       ELSE /\ imp' = "fetching"
            /\ fetched' = Append(fetched, _toGitHubApiSource(sources[k]))
    /\ UNCHANGED imported

\* importLatestStylesheets(callback): with no source async.eachSeries calls back at once
ImportLatestStylesheets ==
    /\ imp = "idle"
    /\ IF sources = <<>>
       THEN /\ ImportCallback("none", numImported)
            /\ UNCHANGED <<srcAt, fetched>>
       ELSE ImportFromGit(1)
    /\ UNCHANGED <<sources, numImported>>
    /\ UNCHANGED <<pipeVars, bytes, hashVars, selVars, cssVars, locVars, fileVars>>

\* ws.on('close'): callback(reqErr, success) of _importFromGit.  The request ended with
\* status 200, ended with another status, or failed.  Without an error
\* _applyImportMappings starts; with one, eachNext(err) ends the series.
RequestClosed ==
    /\ imp = "fetching"
    /\ \E reqErr \in {"none", "status", "transport"} :
          IF reqErr = "none"
          THEN /\ imp' = "mapping"
               /\ UNCHANGED imported
          ELSE ImportCallback(reqErr, numImported)
    /\ UNCHANGED <<sources, srcAt, numImported, fetched>>
    /\ UNCHANGED <<pipeVars, bytes, hashVars, selVars, cssVars, locVars, fileVars>>

\* the final callback of _applyImportMappings: readFile or writeFile failed, or the file
\* was rewritten; then numImported += 1 and eachNext() goes to the next source
MappingsApplied ==
    /\ imp = "mapping"
    /\ \E err \in {"none", "read", "write"} :
          IF err = "none"
          THEN /\ numImported' = numImported + 1
               /\ IF srcAt < Len(sources)
                  THEN ImportFromGit(srcAt + 1)
                  ELSE /\ ImportCallback("none", numImported + 1)
                       /\ UNCHANGED <<srcAt, fetched>>
          ELSE /\ ImportCallback(err, numImported)
               /\ UNCHANGED <<srcAt, numImported, fetched>>
    /\ UNCHANGED sources
    /\ UNCHANGED <<pipeVars, bytes, hashVars, selVars, cssVars, locVars, fileVars>>

ImportNext ==
    \/ ImportLatestStylesheets
    \/ RequestClosed
    \/ MappingsApplied

ImportSpec == ImportInit /\ [][ImportNext]_vars

\* the import of the source the series is at failed
ImportFailed == imp = "threw" \/ (imp = "returned" /\ imported.err # "none")

\* C33 as stated: the sources are requested one at a time in configuration order; on the
\* first failure of any kind no later source is requested, and the callback is invoked
\* with the error and the number of sources imported before the failure.
ImportFailureReported ==
    /\ Len(fetched) <= srcAt
    /\ \A i \in 1..Len(fetched) : fetched[i] = _toGitHubApiSource(sources[i])
    /\ ImportFailed =>
          /\ imported.called
          /\ imported.err # "none"
          /\ imported.numImported = srcAt - 1


(***************************************************************************)
(* Properties of the marker object of the images and of the extras.        *)
(***************************************************************************)
\* every selected file of class c is in the bucket
FilesStored(c) == \A i \in 1..Len(fsFiles[c]) : FileTarget(c, fsFiles[c][i]) \in storage

\* an event of the marker's put was seen
MarkerEventSeen(c) ==
    \E i \in 1..Len(log) :
        log[i].type = c /\ log[i].target = Target(c) /\ log[i].name \in UploadNames

\* C34: for images and extras the marker is put only after the put of every selected file
\* of the class has called back without an error; so when a put of the marker was made in
\* this call, or the marker is in the bucket and was not there before the call, every
\* selected file of the class is in the bucket.
MarkerAfterFiles ==
    \A c \in Relative :
        /\ Target(c) \in issued =>
              /\ FilesStored(c)
              /\ \A i \in 1..Len(fsFiles[c]) : FileTarget(c, fsFiles[c][i]) \in issued
        /\ (Target(c) \in storage /\ Target(c) \notin before) => FilesStored(c)

\* the marker of the images was written by this call, after MaxFiles images were put
MarkerAfterFilesWitness ==
    /\ Target("image") \in storage
    /\ Target("image") \notin before
    /\ Len(fsFiles["image"]) = MaxFiles
    /\ FilesStored("image")

\* C35: for images and extras the marker is put if and only if the probe reported it
\* absent.  When the probe found the marker and the force flag is set, the selected files
\* are put again, the marker is not, and no uploadStarted or uploadEnded event is
\* emitted for the marker.
MarkerPutIffAbsent ==
    \A c \in Relative :
        /\ Target(c) \in issued => exists[c] = "no"
        /\ pc[c] = "done" => (Target(c) \in issued <=> exists[c] = "no")
        /\ (exists[c] = "yes" /\ forceCdnUpdate) =>
              /\ Target(c) \notin issued
              /\ ~MarkerEventSeen(c)
              /\ \A s \in Slots : put[s].purpose = "marker" => put[s].cls # c
              /\ pc[c] = "done" =>
                    \A i \in 1..Len(fsFiles[c]) : FileTarget(c, fsFiles[c][i]) \in issued

\* a forced call has finished the images, whose marker existed, after putting MaxFiles
\* images again
MarkerPutIffAbsentWitness ==
    /\ forceCdnUpdate
    /\ pc["image"] = "done"
    /\ exists["image"] = "yes"
    /\ Len(fsFiles["image"]) = MaxFiles
    /\ FileTarget("image", fsFiles["image"][MaxFiles]) \in issued


(***************************************************************************)
(* Properties of the storage requests of ensureAssets.                     *)
(***************************************************************************)
\* the puts that were started and have not called back; the timer between two attempts
\* belongs to the put
PutsInFlight == {s \in Slots : put[s].state # "off"}

\* the existence probes that were not answered
ProbesInFlight == {c \in Classes : pc[c] = "check"}

\* C36 as stated: during ensureAssets at most one storage request, probe or put, is in
\* flight at any moment, also while the JavaScript bundle and its source map are put.
AtMostOneRequest == Cardinality(PutsInFlight) + Cardinality(ProbesInFlight) <= 1

\* C37 as stated: once ensureAssets has called back, with or without an error, no put
\* started for that call is pending, and none is made afterwards.
NothingPendingAfterCallback == call = "returned" => PutsInFlight = {}


(***************************************************************************)
(* The storage client on its own: one call of putBuffer or putFile, on a   *)
(* transport whose callback function (err, result) gets an error, a        *)
(* response, or neither.  putFile creates one read stream before the loop  *)
(* and hands it to every attempt.                                          *)
(***************************************************************************)
\* the bytes of a file that is put
StreamBytes == {<<1>>, <<1, 2>>}

\* what the callback of an attempt is called with
Outcomes == {"result", "err", "neither"}

\* the variables of ensureAssets that a put on its own leaves alone
callVars == <<forceCdnUpdate, fsFiles, before, call, callErr, prevOk, prevUrl, pc, path,
              exists, url, result, up, idx, wrapped, log>>

PutInit ==
    /\ bytes \in [FileIds -> StreamBytes]
    /\ PipelineIdle
    /\ HashIdle
    /\ SelectIdle
    /\ CssIdle
    /\ LocalIdle
    /\ ImportIdle
    /\ FileIdle

\* no put was called
Fresh == put["main"].state = "off" /\ ~cb.called /\ issued = {}

\* the file a put of purpose "file" reads
SourceOf(p) == p.key.name[1]

\* what the read stream still holds: the bytes of the file after those that were read
Remaining(f) == SubSeq(Content(f), stream + 1, Len(Content(f)))

\* putBuffer(contents, path, callback): the first attempt sends the buffer
PutBuffer(c) ==
    /\ Fresh
    /\ put' = [put EXCEPT !["main"] = StartPut(TargetPath(c, <<>>), "marker", c)]
    /\ issued' = {TargetPath(c, <<>>)}
    /\ UNCHANGED <<storage, cb, stream, sent>>
    /\ UNCHANGED <<callVars, bytes, hashVars, selVars, cssVars, locVars, impVars>>

\* putFile(sourcePath, targetPath, headers, callback): fs.createReadStream(sourcePath),
\* then the first attempt, putStream(stream, ...)
PutFile(f) ==
    /\ Fresh
    /\ put' = [put EXCEPT !["main"] = StartPut(FileTarget("image", f), "file", "image")]
    /\ issued' = {FileTarget("image", f)}
    /\ stream' = 0
    /\ sent' = <<Content(f)>>
    /\ UNCHANGED <<storage, cb>>
    /\ UNCHANGED <<callVars, bytes, hashVars, selVars, cssVars, locVars, impVars>>

\* the transport calls back the attempt in flight.  An attempt of putFile has read n more
\* bytes from the stream by then, all that were left when it stored the object.
TransportCallback ==
    /\ call = "idle"
    /\ put["main"].state = "inflight"
    /\ \E outcome \in Outcomes :
          /\ put' = [put EXCEPT !["main"] =
                        AttemptCallback(put["main"],
                                        IF outcome = "err" THEN PutErr(put["main"].attempts)
                                        ELSE NoErr,
                                        outcome = "result")]
          /\ storage' = IF outcome = "result" THEN storage \cup {put["main"].key} ELSE storage
          /\ IF put["main"].purpose = "file"
             THEN \E n \in 0..Len(Remaining(SourceOf(put["main"]))) :
                     /\ outcome = "result" => n = Len(Remaining(SourceOf(put["main"])))
                     /\ stream' = stream + n
             ELSE UNCHANGED stream
    /\ UNCHANGED <<issued, cb, sent>>
    /\ UNCHANGED <<callVars, bytes, hashVars, selVars, cssVars, locVars, impVars>>

\* the timer fires, untilNext(null), the test of async.until fails: the next attempt.
\* putFile hands the same stream to putStream again, which can send what the stream
\* still holds.
TimerRetry ==
    /\ call = "idle"
    /\ put["main"].state = "timer"
    /\ ~Finished(put["main"])
    /\ put' = [put EXCEPT !["main"].state = "inflight",
                          !["main"].attempts = put["main"].attempts + 1,
                          !["main"].delayTimeoutMs = 0]
    /\ sent' = IF put["main"].purpose = "file"
               THEN Append(sent, Remaining(SourceOf(put["main"])))
               ELSE sent
    /\ UNCHANGED <<storage, issued, cb, stream>>
    /\ UNCHANGED <<callVars, bytes, hashVars, selVars, cssVars, locVars, impVars>>

\* the timer fires and async.until ends: callback(err, fileUpload)
PutCallback ==
    /\ call = "idle"
    /\ Finished(put["main"])
    /\ cb' = CallbackOf(put["main"])
    /\ put' = [put EXCEPT !["main"] = NoPut]
    /\ UNCHANGED <<storage, issued, stream, sent>>
    /\ UNCHANGED <<callVars, bytes, hashVars, selVars, cssVars, locVars, impVars>>

PutNext ==
    \/ \E c \in Relative : PutBuffer(c)
    \/ \E f \in FileIds : PutFile(f)
    \/ TransportCallback
    \/ TimerRetry
    \/ PutCallback

PutSpec == PutInit /\ [][PutNext]_vars

\* C38 as stated: when putBuffer or putFile calls back, the callback carries an error or a
\* public URL, never neither.
CallbackHasErrorOrUrl == cb.called => (cb.err # NoErr \/ cb.url # NoUrl)

\* C39 as stated: every attempt of putFile, the retries included, can send the complete
\* content of the file from its first byte.
RetrySendsWholeFile ==
    \A s \in Slots :
        (put[s].state # "off" /\ put[s].purpose = "file") =>
            \A i \in 1..Len(sent) : sent[i] = Content(SourceOf(put[s]))


(***************************************************************************)
(* Termination of ensureAssets.  Every filesystem call, every transport    *)
(* call, every timer and every task that async.auto scheduled calls back:  *)
(* a step that can be taken is taken.                                      *)
(***************************************************************************)
FairSpec == Init /\ [][Next]_vars /\ WF_vars(Next)

\* C40 as stated: a call of ensureAssets eventually invokes its callback, whatever the
\* transport answers.
EnsureAssetsTerminates == (call = "running") ~> (call = "returned")

====
